---- MODULE Spec2Model ----
(***************************************************************************)
(* Model of the ndp-sim bitstream compiler: the symbol table (NodeIndex,   *)
(* Connect), the connection graph (NodeGraph), the resource placer         *)
(* (Mapper: allocate, constraints, simulated-annealing search), the        *)
(* relative-address resolver and the field encoder.                        *)
(***************************************************************************)
EXTENDS Integers, Sequences, FiniteSets, TLC

(***************************************************************************)
(* Python values                                                           *)
(***************************************************************************)
\* Python None for an int-valued attribute (_index, _physical_id).
None == -1

\* A resource name with no digits in it ("GENERIC"): the digit part is empty.
NoDigits == -1

Abs(x) == IF x < 0 THEN -x ELSE x

Max(a, b) == IF a >= b THEN a ELSE b

Min(a, b) == IF a <= b THEN a ELSE b

\* Elements of a sequence, as a set.
Range(s) == {s[i] : i \in 1..Len(s)}

\* "x in list"
InSeq(x, s) == \E i \in 1..Len(s) : s[i] = x

(***************************************************************************)
(* Mapper.resource_pools (sizes of the physical pools)                     *)
(***************************************************************************)
NumLC == 16
NumROWLC == 4
NumCOLLC == 4
NumPE == 8
NumREAD == 3
NumWRITE == 1

PoolTypes == {"LC", "ROW_LC", "COL_LC", "PE", "READ_STREAM", "WRITE_STREAM"}

PoolSize(t) ==
    CASE t = "LC" -> NumLC
      [] t = "ROW_LC" -> NumROWLC
      [] t = "COL_LC" -> NumCOLLC
      [] t = "PE" -> NumPE
      [] t = "READ_STREAM" -> NumREAD
      [] t = "WRITE_STREAM" -> NumWRITE
      [] OTHER -> 0

\* A physical resource name is the pair <<prefix, k>> standing for the string
\* prefix + str(k), e.g. <<"ROW_LC", 2>> for "ROW_LC2"; "GENERIC" is
\* <<"GENERIC", NoDigits>>.
resource_pools(t) == [i \in 1..PoolSize(t) |-> <<t, i - 1>>]

GENERIC == <<"GENERIC", NoDigits>>

\* "no entry" of a dict from node name to resource.
NoRes == <<"", NoDigits>>

(***************************************************************************)
(* Adjacency constraints (Mapper.Constraint subclasses)                    *)
(***************************************************************************)
LCtoLC_check(src_type, src_idx, dst_type, dst_idx) ==
    IF src_type = "LC" /\ dst_type = "LC"
    THEN LET src_row == src_idx \div 8
             src_col == src_idx % 8
             dst_row == dst_idx \div 8
             dst_col == dst_idx % 8
         IN  IF dst_row = 0 /\ src_row = 1 THEN FALSE
             ELSE IF src_row = dst_row THEN Abs(dst_col - src_col) \in {1, 2}
             ELSE IF Abs(src_row - dst_row) = 1 THEN Abs(dst_col - src_col) <= 2
             ELSE FALSE
    ELSE TRUE

LCtoLC_penalty(src_type, src_idx, dst_type, dst_idx) ==
    IF src_type = "LC" /\ dst_type = "LC"
    THEN IF LCtoLC_check(src_type, src_idx, dst_type, dst_idx) THEN 0
         ELSE LET src_row == src_idx \div 8
                  src_col == src_idx % 8
                  dst_row == dst_idx \div 8
                  dst_col == dst_idx % 8
              IN  Abs(src_row - dst_row) * 8 + Abs(src_col - dst_col)
    ELSE 0

LCtoROWLC_check(src_type, src_idx, dst_type, dst_idx) ==
    IF src_type = "LC" /\ dst_type = "ROW_LC"
    THEN LET src_col == src_idx % 8
         IN  Abs(dst_idx - (src_col \div 2)) <= 2
    ELSE TRUE

LCtoROWLC_penalty(src_type, src_idx, dst_type, dst_idx) ==
    IF src_type = "LC" /\ dst_type = "ROW_LC"
    THEN LET src_col == src_idx % 8
         IN  Abs(dst_idx - (src_col \div 2))
    ELSE 0

\* The class body defines LCtoStreamConstraint twice; the second definition
\* replaces the first, and is the one instantiated.
LCtoStream_check(src_type, src_idx, dst_type, dst_idx) ==
    IF src_type = "LC" /\ dst_type = "STREAM"
    THEN LET src_col == src_idx % 8
         IN  Abs(dst_idx - (src_col \div 2)) \in {0, 1}
    ELSE TRUE

LCtoStream_penalty(src_type, src_idx, dst_type, dst_idx) ==
    IF src_type = "LC" /\ dst_type = "STREAM"
    THEN LET src_col == src_idx % 8
             d == Abs(dst_idx - (src_col \div 2))
         IN  IF d \in {0, 1} THEN 0 ELSE d - 1
    ELSE 0

PEtoLC_check(src_type, src_idx, dst_type, dst_idx) ==
    IF src_type = "PE" /\ dst_type = "LC"
    THEN LET dst_row == dst_idx \div 8
             dst_col == dst_idx % 8
         IN  IF dst_row # 0 THEN FALSE ELSE Abs(dst_col - src_idx) <= 1
    ELSE IF src_type = "LC" /\ dst_type = "PE"
    THEN LET src_row == src_idx \div 8
             src_col == src_idx % 8
         IN  IF src_row # 0 THEN FALSE ELSE Abs(src_col - dst_idx) <= 1
    ELSE TRUE

PEtoLC_penalty(src_type, src_idx, dst_type, dst_idx) ==
    IF src_type = "PE" /\ dst_type = "LC"
    THEN LET dst_row == dst_idx \div 8
             dst_col == dst_idx % 8
             d == Abs(dst_col - src_idx)
         IN  IF dst_row # 0 THEN 100 ELSE IF d <= 1 THEN 0 ELSE d
    ELSE IF src_type = "LC" /\ dst_type = "PE"
    THEN LET src_row == src_idx \div 8
             src_col == src_idx % 8
             d == Abs(src_col - dst_idx)
         IN  IF src_row # 0 THEN 100 ELSE IF d <= 1 THEN 0 ELSE d
    ELSE 0

PEtoPE_check(src_type, src_idx, dst_type, dst_idx) ==
    IF src_type = "PE" /\ dst_type = "PE"
    THEN Abs(dst_idx - src_idx) \in {1, 2}
    ELSE TRUE

PEtoPE_penalty(src_type, src_idx, dst_type, dst_idx) ==
    IF src_type = "PE" /\ dst_type = "PE"
    THEN LET d == Abs(dst_idx - src_idx)
         IN  IF d \in {1, 2} THEN 0 ELSE Max(0, d - 2)
    ELSE 0

PEtoStream_check(src_type, src_idx, dst_type, dst_idx) ==
    IF src_type = "PE" /\ dst_type = "STREAM"
    THEN Abs(dst_idx - (src_idx \div 2)) \in {0, 1}
    ELSE TRUE

PEtoStream_penalty(src_type, src_idx, dst_type, dst_idx) ==
    IF src_type = "PE" /\ dst_type = "STREAM"
    THEN LET d == Abs(dst_idx - (src_idx \div 2))
         IN  IF d \in {0, 1} THEN 0 ELSE d - 1
    ELSE 0

ROWLCtoColLC_check(src_type, src_idx, dst_type, dst_idx) ==
    IF src_type = "ROW_LC" /\ dst_type = "COL_LC" THEN src_idx = dst_idx
    ELSE IF dst_type = "COL_LC" /\ src_type # "ROW_LC" THEN FALSE
    ELSE TRUE

ROWLCtoColLC_penalty(src_type, src_idx, dst_type, dst_idx) ==
    IF src_type = "ROW_LC" /\ dst_type = "COL_LC"
    THEN IF src_idx = dst_idx THEN 0 ELSE 10000
    ELSE IF dst_type = "COL_LC" /\ src_type # "ROW_LC" THEN 10000
    ELSE 0

\* self.constraints, in list order (LCtoStreamConstraint is listed twice).
constraints ==
    << "LCtoLCConstraint", "LCtoROWLCConstraint", "LCtoStreamConstraint",
       "PEtoLCConstraint", "PEtoPEConstraint", "PEtoStreamConstraint",
       "LCtoStreamConstraint", "ROWLCtoColLCConstraint" >>

\* constraint.check(...) dispatched on the constraint's class.
check(cst, st, si, dt, di) ==
    CASE cst = "LCtoLCConstraint" -> LCtoLC_check(st, si, dt, di)
      [] cst = "LCtoROWLCConstraint" -> LCtoROWLC_check(st, si, dt, di)
      [] cst = "LCtoStreamConstraint" -> LCtoStream_check(st, si, dt, di)
      [] cst = "PEtoLCConstraint" -> PEtoLC_check(st, si, dt, di)
      [] cst = "PEtoPEConstraint" -> PEtoPE_check(st, si, dt, di)
      [] cst = "PEtoStreamConstraint" -> PEtoStream_check(st, si, dt, di)
      [] cst = "ROWLCtoColLCConstraint" -> ROWLCtoColLC_check(st, si, dt, di)

\* constraint.penalty(...) dispatched on the constraint's class.
penalty(cst, st, si, dt, di) ==
    CASE cst = "LCtoLCConstraint" -> LCtoLC_penalty(st, si, dt, di)
      [] cst = "LCtoROWLCConstraint" -> LCtoROWLC_penalty(st, si, dt, di)
      [] cst = "LCtoStreamConstraint" -> LCtoStream_penalty(st, si, dt, di)
      [] cst = "PEtoLCConstraint" -> PEtoLC_penalty(st, si, dt, di)
      [] cst = "PEtoPEConstraint" -> PEtoPE_penalty(st, si, dt, di)
      [] cst = "PEtoStreamConstraint" -> PEtoStream_penalty(st, si, dt, di)
      [] cst = "ROWLCtoColLCConstraint" -> ROWLCtoColLC_penalty(st, si, dt, di)

\* Sum of the penalties of all listed constraints for one placed edge
\* (the inner loop of calculate_cost and of _conn_penalty).
RECURSIVE SumPenalty(_, _, _, _, _)
SumPenalty(i, st, si, dt, di) ==
    IF i > Len(constraints) THEN 0
    ELSE penalty(constraints[i], st, si, dt, di) + SumPenalty(i + 1, st, si, dt, di)

(***************************************************************************)
(* Node names                                                              *)
(***************************************************************************)
\* The node names of the model.  A name is the Python string itself; the
\* operators below tabulate the substring tests the code makes on it.
LCNames == {"DRAM_LC.LC0", "DRAM_LC.LC1", "DRAM_LC.LC2"}

PENames == {"LC_PE.PE0"}

ROWNames == {"GROUP0.ROW_LC"}

COLNames == {"GROUP0.COL_LC"}

StreamNames == {"STREAM.stream0", "STREAM.stream1"}

GroupNames == {"GROUP0"}

Names == LCNames \cup PENames \cup ROWNames \cup COLNames \cup StreamNames \cup GroupNames

\* Mapper.get_type(node): the resource type inferred from the node name
\* ("" stands for None).
get_type(node) ==
    CASE node \in LCNames -> "LC"
      [] node \in ROWNames -> "ROW_LC"
      [] node \in COLNames -> "COL_LC"
      [] node \in PENames -> "PE"
      [] node \in StreamNames -> "STREAM"
      [] OTHER -> ""

\* Connect._get_node_type(node_name).
get_node_type(node_name) ==
    CASE node_name \in LCNames -> "LC"
      [] node_name \in PENames -> "PE"
      [] node_name \in ROWNames -> "ROW_LC"
      [] node_name \in COLNames -> "COL_LC"
      [] node_name \in StreamNames -> "STREAM"
      [] OTHER -> "UNKNOWN"

\* node.split(".")[0] for a name that ends with ROW_LC or COL_LC, the name
\* itself otherwise (the renaming made by calculate_cost and the repair move).
group_prefix(node) ==
    CASE node = "GROUP0.ROW_LC" -> "GROUP0"
      [] node = "GROUP0.COL_LC" -> "GROUP0"
      [] OTHER -> node

\* f"{group_prefix}.COL_LC" for a name containing ".ROW_LC" ("" when no such
\* node name exists in the model).
col_lc_node(node) ==
    CASE node = "GROUP0.ROW_LC" -> "GROUP0.COL_LC"
      [] OTHER -> ""

\* Python's string order on the node names, as ranks (used by list.sort on
\* tuples that hold names).
NameRank(n) ==
    CASE n = "DRAM_LC.LC0" -> 1
      [] n = "DRAM_LC.LC1" -> 2
      [] n = "DRAM_LC.LC2" -> 3
      [] n = "GROUP0" -> 4
      [] n = "GROUP0.COL_LC" -> 5
      [] n = "GROUP0.ROW_LC" -> 6
      [] n = "LC_PE.PE0" -> 7
      [] n = "STREAM.stream0" -> 8
      [] n = "STREAM.stream1" -> 9
      [] OTHER -> 0

(***************************************************************************)
(* Resource names                                                          *)
(***************************************************************************)
\* Mapper.get_type_from_resource(resource) ("" stands for None).
get_type_from_resource(resource) ==
    CASE resource[1] = "LC" -> "LC"
      [] resource[1] = "ROW_LC" -> "ROW_LC"
      [] resource[1] = "COL_LC" -> "COL_LC"
      [] resource[1] = "PE" -> "PE"
      [] resource[1] = "READ_STREAM" -> "READ_STREAM"
      [] resource[1] = "WRITE_STREAM" -> "WRITE_STREAM"
      [] OTHER -> ""

\* ''.join(ch for ch in prefix if ch.isalpha()): the underscore is dropped.
AlphaOnly(prefix) ==
    CASE prefix = "ROW_LC" -> "ROWLC"
      [] prefix = "COL_LC" -> "COLLC"
      [] OTHER -> prefix

\* Mapper.parse_resource(resource): <<res_type, res_idx>>.
parse_resource(resource) ==
    CASE resource[1] = "READ_STREAM" -> <<"STREAM", resource[2]>>
      [] resource[1] = "WRITE_STREAM" -> <<"STREAM", 3 + resource[2]>>
      [] OTHER -> <<AlphaOnly(resource[1]),
                    IF resource[2] = NoDigits THEN 0 ELSE resource[2]>>

\* The numeric id resolve_all() extracts from a resource name
\* (lines 63-70 of index.py).
resource_id(physical_resource) == physical_resource[2]

\* The (class, index) pairs a placed node presents to a constraint:
\* parse_resource of the slots of the pools (ROW_LC2 -> ("ROWLC", 2),
\* READ_STREAM0..2 -> ("STREAM", 0..2), WRITE_STREAM0 -> ("STREAM", 3)).
ClassSlots ==
    {parse_resource(r) : r \in UNION {Range(resource_pools(t)) : t \in PoolTypes}}

\* The (class, index) pairs of the pools under the class names the
\* constraints test for: the pool key with the indices of its slots, the two
\* stream pools under "STREAM".
PoolClassSlots ==
    UNION {{get_type_from_resource(r)} \X {resource_id(r)} :
              r \in UNION {Range(resource_pools(t)) :
                               t \in PoolTypes \ {"READ_STREAM", "WRITE_STREAM"}}}
    \cup {parse_resource(r) :
             r \in Range(resource_pools("READ_STREAM")) \cup Range(resource_pools("WRITE_STREAM"))}

\* The arguments check() and penalty() are evaluated on: what the placer
\* presents and what the constraints are written for.
ConstraintSlots == ClassSlots \cup PoolClassSlots

(***************************************************************************)
(* State                                                                   *)
(***************************************************************************)
VARIABLES
    cst_in,             \* arguments of the constraint evaluation under test
    cst_out,            \* its results: [done, check, penalty]
    bit,                \* a Bit under test, the operation applied to it and its result
    registry,           \* NodeIndex._registry: the registered names
    queue,              \* NodeIndex._queue
    counter,            \* NodeIndex._counter
    resolved,           \* NodeIndex._resolved
    index,              \* node._index, per name (None if unset)
    physical_id,        \* node._physical_id, per name (None if unset)
    g_nodes,            \* NodeGraph.nodes
    connections,        \* NodeGraph.connections, as <<src, dst>> pairs
    node_metadata,      \* NodeGraph.node_metadata: stream_type per name ("" if none)
    m_nodes,            \* Mapper.nodes
    node_to_resource,   \* Mapper.node_to_resource (NoRes if no entry)
    assigned_node,      \* Mapper.assigned_node (NoRes if no entry)
    resource_counters,  \* Mapper.resource_counters
    use_direct_mapping, \* Mapper.use_direct_mapping
    values,             \* module.values["src_id"] of the module that owns each node
    pc,                 \* position of init_modules ("api" outside init_modules)
    cfg,                \* the arguments of init_modules
    sa,                 \* the local variables of Mapper.search
    last_mapping_cost,  \* Mapper.last_mapping_cost (Inf while the attribute is unset)
    attempt_costs,      \* the mapping_cost init_modules got from each attempt so far
    config_mask,        \* generate_bitstream: the mask argument
    entries,            \* the entry lists of two configurations of one catalog
    bitstream,          \* what generate_bitstream returned for each of them
    binary_output,      \* what write_bitstream wrote to binary_output_file for each of them
    module,             \* a BufferConfig instance
    last                \* the last operation: [op, a, b, re, val, w, err]

cvars == <<cst_in, cst_out, bit>>

symvars == <<registry, queue, counter, resolved, index, physical_id>>

graphvars == <<g_nodes, connections, node_metadata>>

mapvars == <<m_nodes, node_to_resource, assigned_node, resource_counters,
             use_direct_mapping>>

pvars == <<pc, cfg, sa, last_mapping_cost, attempt_costs>>

asmvars == <<config_mask, entries, bitstream, binary_output, module>>

vars == <<cst_in, cst_out, bit, registry, queue, counter, resolved, index, physical_id,
          g_nodes, connections, node_metadata,
          m_nodes, node_to_resource, assigned_node, resource_counters,
          use_direct_mapping, values, pc, cfg, sa, last_mapping_cost, attempt_costs,
          config_mask, entries, bitstream, binary_output, module, last>>

\* float('inf'), the cost reported when no search has stored one.
Inf == 1000000

NoEval == [done |-> FALSE, check |-> FALSE, penalty |-> 0]

NoOp == [op |-> "", a |-> "", b |-> "", re |-> FALSE, val |-> None, w |-> 0, err |-> ""]

\* NodeIndex class attributes as the class body sets them (and as the reset at
\* the start of init_modules sets them again).
InitSym ==
    /\ registry = {}
    /\ queue = <<>>
    /\ counter = 0
    /\ resolved = FALSE
    /\ index = [n \in Names |-> None]
    /\ physical_id = [n \in Names |-> None]

\* NodeGraph.__init__ (the singleton is created on first use).
InitGraph ==
    /\ g_nodes = <<>>
    /\ connections = <<>>
    /\ node_metadata = [n \in Names |-> ""]

\* Mapper.__init__.
InitMapper ==
    /\ m_nodes = <<>>
    /\ node_to_resource = [n \in Names |-> NoRes]
    /\ assigned_node = [n \in Names |-> NoRes]
    /\ resource_counters = [t \in PoolTypes |-> 0]
    /\ use_direct_mapping = FALSE

(***************************************************************************)
(* The program state as one record, so that operations compose the way the *)
(* code calls them.  err is the exception an operation raised ("" if none).*)
(***************************************************************************)
Cur ==
    [registry |-> registry, queue |-> queue, counter |-> counter,
     resolved |-> resolved, index |-> index, physical_id |-> physical_id,
     g_nodes |-> g_nodes, connections |-> connections,
     node_metadata |-> node_metadata,
     m_nodes |-> m_nodes, node_to_resource |-> node_to_resource,
     assigned_node |-> assigned_node, resource_counters |-> resource_counters,
     use_direct_mapping |-> use_direct_mapping, err |-> ""]

Becomes(S) ==
    /\ registry' = S.registry
    /\ queue' = S.queue
    /\ counter' = S.counter
    /\ resolved' = S.resolved
    /\ index' = S.index
    /\ physical_id' = S.physical_id
    /\ g_nodes' = S.g_nodes
    /\ connections' = S.connections
    /\ node_metadata' = S.node_metadata
    /\ m_nodes' = S.m_nodes
    /\ node_to_resource' = S.node_to_resource
    /\ assigned_node' = S.assigned_node
    /\ resource_counters' = S.resource_counters
    /\ use_direct_mapping' = S.use_direct_mapping

(***************************************************************************)
(* NodeGraph                                                               *)
(***************************************************************************)
\* NodeGraph.add_node(name, **metadata); metadata "" is the empty dict.
add_node(S, name, metadata) ==
    [S EXCEPT !.g_nodes = IF InSeq(name, @) THEN @ ELSE Append(@, name),
              !.node_metadata[name] = IF metadata # "" THEN metadata ELSE @]

\* NodeGraph.connect without the membership test (mutant).
connect_NoDedup(S, src, dst) ==
    LET S2 == add_node(add_node(S, src, ""), dst, "")
    IN  [S2 EXCEPT !.connections = Append(@, <<src, dst>>)]

\* NodeGraph.connect(src, dst).
connect(S, src, dst) ==
    LET S2 == add_node(add_node(S, src, ""), dst, "")
    IN  [S2 EXCEPT !.connections =
            IF InSeq(<<src, dst>>, @) THEN @ ELSE Append(@, <<src, dst>>)]

\* NodeGraph.assign_node(node, resource).
assign_node(S, node, resource) ==
    [S EXCEPT !.node_to_resource[node] = resource,
              !.assigned_node[node] = resource,
              !.m_nodes = IF InSeq(node, @) THEN @ ELSE Append(@, node)]

(***************************************************************************)
(* Mapper.allocate and NodeGraph.allocate_resources                        *)
(***************************************************************************)
\* Mapper.extract_logical_index(node): the number the regular expressions
\* find in the name, None when there is none (the LC pattern wants two
\* digits, a group key matches no branch).
extract_logical_index(node) ==
    CASE node \in {"GROUP0.ROW_LC", "GROUP0.COL_LC", "LC_PE.PE0", "STREAM.stream0"} -> 0
      [] node = "STREAM.stream1" -> 1
      [] OTHER -> None

\* Mapper.allocate(node, stream_type). With use_direct_mapping the slot is
\* the one of the logical index of the name (a stream is a read stream below
\* the size of the read pool), and the counter is used only when the name
\* has no index.
allocate(S, node, stream_type) ==
    IF S.node_to_resource[node] # NoRes THEN S
    ELSE
      LET S1 == [S EXCEPT !.m_nodes = IF InSeq(node, @) THEN @ ELSE Append(@, node)]
          t0 == get_type(node)
          logical_idx == IF S.use_direct_mapping THEN extract_logical_index(node) ELSE None
          res_type == IF t0 = "STREAM"
                      THEN (IF logical_idx # None
                            THEN (IF logical_idx < PoolSize("READ_STREAM")
                                  THEN "READ_STREAM" ELSE "WRITE_STREAM")
                            ELSE IF stream_type = "write" THEN "WRITE_STREAM"
                            ELSE "READ_STREAM")
                      ELSE t0
      IN  IF t0 = ""
          THEN [S1 EXCEPT !.node_to_resource[node] = GENERIC]
          ELSE LET idx == IF logical_idx = None THEN S1.resource_counters[res_type]
                          ELSE IF res_type = "WRITE_STREAM"
                          THEN logical_idx - PoolSize("READ_STREAM")
                          ELSE logical_idx
                   S2 == IF logical_idx = None
                         THEN [S1 EXCEPT !.resource_counters[res_type] = idx + 1]
                         ELSE S1
               IN  IF idx >= PoolSize(res_type)
                   THEN [S2 EXCEPT !.err = "RuntimeError"]
                   ELSE [S2 EXCEPT !.node_to_resource[node] =
                                        resource_pools(res_type)[idx + 1]]

\* The loop of allocate_resources over nodes_to_process, from position i; an
\* exception raised by allocate ends it.
RECURSIVE allocate_loop(_, _, _)
allocate_loop(S, nodes_to_process, i) ==
    IF i > Len(nodes_to_process) \/ S.err # "" THEN S
    ELSE LET node == nodes_to_process[i]
         IN  IF S.node_to_resource[node] # NoRes
             THEN allocate_loop(S, nodes_to_process, i + 1)
             ELSE allocate_loop(allocate(S, node, S.node_metadata[node]),
                                nodes_to_process, i + 1)

\* The nodes that appear in connections (a Python set).
nodes_in_connections(S) ==
    {c[1] : c \in Range(S.connections)} \cup {c[2] : c \in Range(S.connections)}

\* The orders in which a Python set can be iterated: every enumeration.
RECURSIVE Orders(_)
Orders(set) ==
    IF set = {} THEN {<<>>}
    ELSE UNION {{<<x>> \o o : o \in Orders(set \ {x})} : x \in set}

\* NodeGraph.allocate_resources(only_connected_nodes); order is the iteration
\* order of the set nodes_in_connections (unused when all nodes are processed,
\* which are taken in list order).
allocate_resources(S, only_connected_nodes, order) ==
    allocate_loop(S, IF only_connected_nodes THEN order ELSE S.g_nodes, 1)

(***************************************************************************)
(* NodeIndex                                                               *)
(***************************************************************************)
\* NodeIndex(name) that re-initialises an instance already registered (mutant).
NodeIndex_Reinit(S, name, metadata) ==
    add_node([S EXCEPT !.index[name] = None,
                       !.physical_id[name] = None,
                       !.queue = Append(@, name),
                       !.registry = @ \cup {name}],
             name, metadata)

\* NodeIndex(name, **metadata): __new__ then __init__.
NodeIndex(S, name, metadata) ==
    IF name \in S.registry THEN S
    ELSE add_node([S EXCEPT !.index[name] = None,
                            !.physical_id[name] = None,
                            !.queue = Append(@, name),
                            !.registry = @ \cup {name}],
                  name, metadata)

\* The loop of resolve_all over the queue, from position i.
RECURSIVE resolve_loop(_, _)
resolve_loop(S, i) ==
    IF i > Len(S.queue) THEN S
    ELSE LET n == S.queue[i]
             fresh == S.index[n] = None
             idx == IF fresh THEN S.counter ELSE S.index[n]
             physical_resource == S.node_to_resource[n]
             S1 == [S EXCEPT !.index[n] = idx,
                             !.counter = IF fresh THEN @ + 1 ELSE @,
                             !.physical_id[n] =
                                 IF physical_resource # NoRes /\ physical_resource # GENERIC
                                 THEN resource_id(physical_resource)
                                 ELSE idx]
         IN  resolve_loop(S1, i + 1)

\* NodeIndex.resolve_all() (module registration apart).
resolve_all(S) ==
    IF S.resolved THEN S
    ELSE [resolve_loop(S, 1) EXCEPT !.resolved = TRUE, !.queue = <<>>]

\* The state after reading node.physical_id (the property resolves on None).
physical_id_state(S, n) ==
    IF S.physical_id[n] = None THEN resolve_all(S) ELSE S

\* Connect(src, dst): dst is a NodeIndex instance, src a name.
Connect(S, src, dst) == connect(NodeIndex(S, src, ""), src, dst)

(***************************************************************************)
(* Relative-address resolver (Connect.__int__)                             *)
(***************************************************************************)
\* Connect._get_lc_row(node_name).
get_lc_row(S, node_name) ==
    IF node_name \in LCNames
    THEN LET physical_resource == S.node_to_resource[node_name]
             lc_num == IF physical_resource # NoRes THEN physical_resource[2] ELSE 0
         IN  IF lc_num < 8 THEN 0 ELSE 1
    ELSE -1

\* Connect._get_stream_type(node_name).
get_stream_type(S, node_name) ==
    LET physical_resource == S.node_to_resource[node_name]
    IN  IF physical_resource[1] = "READ_STREAM" THEN "READ_STREAM"
        ELSE IF physical_resource[1] = "WRITE_STREAM" THEN "WRITE_STREAM"
        ELSE "STREAM"

\* list(range(start, start + 6)).index(x) if x is in the range, else the
\* "Invalid" value 0; offset is added to a valid position.
range_index(start, x, offset) ==
    IF x >= start /\ x < start + 6 THEN (x - start) + offset ELSE 0

\* The value Ok(v) or the exception Raise(e) of an integer conversion.
Ok(v) == [val |-> v, err |-> ""]

Raise(e) == [val |-> None, err |-> e]

\* The class pairs for which _calculate_relative_index has a branch of its
\* own; every other pair falls through to the final "return 0".
HasRule(src_type, dst_type) ==
    \/ src_type = "LC" /\ dst_type = "LC"
    \/ src_type = "LC" /\ dst_type = "ROW_LC"
    \/ src_type = "ROW_LC" /\ dst_type = "COL_LC"
    \/ src_type = "LC" /\ dst_type = "PE"
    \/ src_type = "PE" /\ dst_type = "PE"
    \/ src_type = "LC" /\ dst_type = "STREAM"
    \/ src_type = "PE" /\ dst_type = "STREAM"
    \/ src_type = "STREAM" /\ dst_type \in {"ROW_LC", "COL_LC"}
    \/ src_type \in {"ROW_LC", "COL_LC"} /\ dst_type = "STREAM"

\* Connect._calculate_relative_index() on resolved state S, for nodes whose
\* names are not GA_PE names.
calculate_relative_index(S, src, dst) ==
    LET src_phys_id == IF S.physical_id[src] # None THEN S.physical_id[src] ELSE 0
        dst_phys_id == IF S.physical_id[dst] # None THEN S.physical_id[dst] ELSE 0
        src_type == get_node_type(src)
        dst_type == get_node_type(dst)
        src_row == get_lc_row(S, src)
        dst_row == get_lc_row(S, dst)
        src_lc_idx == src_phys_id % 8
        dst_lc_idx == dst_phys_id % 8
        stream_type == get_stream_type(S, dst)
        stream_logical_idx == IF stream_type = "READ_STREAM" THEN dst_phys_id ELSE 3
    IN  CASE src_type = "LC" /\ dst_type = "LC" ->
               LET diff == src_lc_idx - dst_lc_idx
               IN  IF src_row = dst_row
                   THEN Ok(CASE diff = -2 -> 5 [] diff = -1 -> 6 [] diff = 1 -> 7
                             [] diff = 2 -> 8 [] OTHER -> 0)
                   ELSE Ok(CASE diff = -2 -> 0 [] diff = -1 -> 1 [] diff = 0 -> 2
                             [] diff = 1 -> 3 [] diff = 2 -> 4 [] OTHER -> 0)
          [] src_type = "LC" /\ dst_type = "ROW_LC" ->
               Ok(range_index(dst_phys_id * 2 - 2, src_lc_idx,
                              IF src_row = 0 THEN 0 ELSE 6))
          [] src_type = "ROW_LC" /\ dst_type = "COL_LC" -> Ok(12)
          [] src_type = "LC" /\ dst_type = "PE" ->
               LET diff == src_lc_idx - dst_phys_id
               IN  Ok(CASE diff = -1 -> (IF src_row = 0 THEN 0 ELSE 3)
                        [] diff = 0 -> (IF src_row = 0 THEN 1 ELSE 4)
                        [] diff = 1 -> (IF src_row = 0 THEN 2 ELSE 5)
                        [] OTHER -> 0)
          [] src_type = "PE" /\ dst_type = "PE" ->
               LET diff == src_phys_id - dst_phys_id
               IN  Ok(CASE diff = -2 -> 6 [] diff = -1 -> 7 [] diff = 1 -> 8
                        [] diff = 2 -> 9 [] OTHER -> 0)
          [] src_type = "LC" /\ dst_type = "STREAM" ->
               IF stream_type = "STREAM" THEN Raise("ValueError")
               ELSE Ok(range_index(stream_logical_idx * 2 - 2, src_lc_idx,
                                   IF src_row = 0 THEN 0 ELSE 6))
          [] src_type = "PE" /\ dst_type = "STREAM" ->
               IF stream_type = "STREAM" THEN Raise("ValueError")
               ELSE LET r == range_index(stream_logical_idx * 2 - 2, src_phys_id, 12)
                    IN  Ok(r)
          [] src_type = "STREAM" /\ dst_type \in {"ROW_LC", "COL_LC"} -> Ok(0)
          [] src_type \in {"ROW_LC", "COL_LC"} /\ dst_type = "STREAM" -> Ok(0)
          [] OTHER -> Ok(0)

\* The state after int(Connect(src, dst)): __int__ resolves when the source
\* has no physical id, _calculate_relative_index when either endpoint has none.
Connect_int_state(S, src, dst) ==
    IF S.physical_id[src] = None \/ S.physical_id[dst] = None
    THEN resolve_all(S) ELSE S

\* int(Connect(src, dst)).
Connect_int(S, src, dst) ==
    calculate_relative_index(Connect_int_state(S, src, dst), src, dst)

\* int(node): the physical id, or TypeError when it is still None.
NodeIndex_int(S, n) ==
    LET v == physical_id_state(S, n).physical_id[n]
    IN  IF v = None THEN Raise("TypeError") ELSE Ok(v)

(***************************************************************************)
(* Node-reference fields (BaseConfigModule with a "src_id" FIELD_MAP entry)*)
(***************************************************************************)
\* A Python value held by a field: an int, None, a str (a node name or ""),
\* or a Connect whose source is s.
IntVal(k) == [kind |-> "int", n |-> k, s |-> ""]

NoneVal == [kind |-> "None", n |-> 0, s |-> ""]

StrVal(str) == [kind |-> "str", n |-> 0, s |-> str]

ConnectVal(src) == [kind |-> "Connect", n |-> 0, s |-> src]

\* BaseConfigModule.__init__: every field starts at 0.
InitValues == values = [n \in Names |-> IntVal(0)]

\* The modules whose FIELD_MAP has the node reference "src_id": the loop
\* controllers (DramLoopControlConfig, BufferRowLCConfig, BufferColLCConfig),
\* each named by the node that is its self.id.
RefModules == LCNames \cup ROWNames \cup COLNames

\* The declared width of src_id in the module's FIELD_MAP.
src_id_width(m) == IF m \in LCNames THEN 4 ELSE 3

\* Python truthiness of a raw value.
Truthy(x) ==
    CASE x.kind = "int" -> x.n # 0
      [] x.kind = "str" -> x.s # ""
      [] x.kind = "None" -> FALSE
      [] OTHER -> TRUE

\* An absent raw value: None or the empty string.
Absent(x) == x.kind = "None" \/ (x.kind = "str" /\ x.s = "")

\* The value of the src_id lambda applied to (self, x):
\*   DramLoopControlConfig:  Connect(x, self.id) if x else None
\*   BufferRowLCConfig / BufferColLCConfig:
\*       x if isinstance(x, int) else (Connect(x, self.id) if x else None)
src_id_mapper_val(m, x) ==
    IF m \notin LCNames /\ x.kind = "int" THEN x
    ELSE IF Truthy(x) THEN ConnectVal(x.s)
    ELSE NoneVal

\* The lambda without the "if x" test: it builds a Connect from any value
\* (mutant).
src_id_mapper_state_Always(S, m, x) ==
    IF x.kind = "int" THEN S ELSE Connect(S, x.s, m)

\* The state after the lambda ran: a Connect is constructed exactly when the
\* lambda's value is one.
src_id_mapper_state(S, m, x) ==
    IF src_id_mapper_val(m, x).kind = "Connect" THEN Connect(S, x.s, m) ELSE S

\* The raw values a configuration can hold for src_id: None, "", 0, or the
\* name of a node.
RawValues == {NoneVal, StrVal(""), IntVal(0)} \cup {StrVal(n) : n \in Names}

\* BaseConfigModule._encode_field(val, mapper, width) for src_id, on state S:
\* the (value, width) pair, or the exception raised.
encode_field(S, m, val) ==
    LET v == IF val.kind # "Connect" THEN src_id_mapper_val(m, val) ELSE val
        S1 == IF val.kind # "Connect" THEN src_id_mapper_state(S, m, val) ELSE S
        width == src_id_width(m)
    IN  CASE v.kind = "None" -> [val |-> 0, w |-> width, err |-> ""]
          [] v.kind = "int" -> [val |-> v.n, w |-> width, err |-> ""]
          [] OTHER -> LET r == Connect_int(S1, v.s, m)
                      IN  [val |-> r.val, w |-> width, err |-> r.err]

\* The state after _encode_field.
encode_field_state(S, m, val) ==
    LET v == IF val.kind # "Connect" THEN src_id_mapper_val(m, val) ELSE val
        S1 == IF val.kind # "Connect" THEN src_id_mapper_state(S, m, val) ELSE S
    IN  IF v.kind = "Connect" THEN Connect_int_state(S1, v.s, m) ELSE S1

(***************************************************************************)
(* init_modules: the configuration and the from_json calls of the modules  *)
(***************************************************************************)
\* The DRAM loop-controller keys in sorted order (the order in which
\* DramLoopControlConfig(0), (1), ... pick their entries).
LCSeq == <<"DRAM_LC.LC0", "DRAM_LC.LC1", "DRAM_LC.LC2">>

\* f"{key}.ROW_LC" and f"{key}.COL_LC" for a group key.
row_lc_name(key) == CASE key = "GROUP0" -> "GROUP0.ROW_LC" [] OTHER -> ""

col_lc_name(key) == CASE key = "GROUP0" -> "GROUP0.COL_LC" [] OTHER -> ""

\* The src_id values of the configurations: None or the name of a node.
NoSrc == NoneVal

\* An entry or section that has no "src_id" key.
NoKey == [kind |-> "no key", n |-> 0, s |-> ""]

\* BaseConfigModule.from_json for the field src_id of module m, the entry
\* holding x: a key that is missing leaves the value of __init__ (0), any
\* other value goes through the two-argument mapper.
from_json_val(m, x) == IF x = NoKey THEN IntVal(0) ELSE src_id_mapper_val(m, x)

from_json_state(S, m, x) == IF x = NoKey THEN S ELSE src_id_mapper_state(S, m, x)

\* A "dram_loop_configs" entry: present (it has data: a nonzero stride or a
\* src_id that is not None) with its src_id.
DramEntries(k) ==
    {[present |-> FALSE, src_id |-> NoSrc], [present |-> TRUE, src_id |-> NoSrc]}
    \cup (IF k = "DRAM_LC.LC0"
          THEN {[present |-> TRUE, src_id |-> StrVal("DRAM_LC.LC1")],
                [present |-> TRUE, src_id |-> NoKey]}
          ELSE {})

\* The targets 'A' and 'D' of a buffer group, as ord(target) - ord('A').
GroupTargets == {0, 3}

\* A "buffer_loop_configs" entry: whether the group key is present, its
\* target, whether it has a ROW_LC or COL_LC section, and the src_id of the
\* two sections.
GroupEntries ==
    {[present |-> FALSE, target |-> 0, sections |-> FALSE, row_src |-> NoKey, col_src |-> NoKey],
     [present |-> TRUE, target |-> 3, sections |-> FALSE, row_src |-> NoKey, col_src |-> NoKey]}
    \cup [present : {TRUE}, target : GroupTargets, sections : {TRUE},
          row_src : {NoSrc, StrVal("DRAM_LC.LC0")},
          col_src : {StrVal("GROUP0.ROW_LC")}]

\* The targets 'A', "B'" and 'C' of a stream, as target_idx_map gives them.
StreamTargets == {0, 2, 3}

\* A "stream_engine" entry: mode, target and the node named in its idx list
\* (the target of a write stream does not matter).
StreamEntries ==
    {[present |-> FALSE, mode |-> "read", target |-> 0, idx |-> NoSrc]}
    \cup [present : {TRUE}, mode : {"read"}, target : StreamTargets,
          idx : {NoSrc, StrVal("DRAM_LC.LC0")}]
    \cup [present : {TRUE}, mode : {"write"}, target : {0},
          idx : {NoSrc, StrVal("DRAM_LC.LC0")}]

\* Bounds on the arguments heuristic_iterations and heuristic_restarts.
MaxIterations == 1
MaxRestarts == 2

\* The module list of init_modules for the configuration c: the constructors
\* before it have no effect on the shared state, and NeighborStreamConfig(i)
\* passes its index on to BaseConfigModule.__init__(self), which takes no
\* argument, so the list ends in TypeError whatever c holds.
build_modules(c) == "TypeError"

\* A configuration with the arguments that go with it: whether a seed is
\* given, heuristic_restarts, heuristic_iterations, use_direct_mapping and
\* use_heuristic_search.  Without search there is one attempt and no seed.
Configurations ==
    {c \in [dram : [LCNames -> UNION {DramEntries(k) : k \in LCNames}],
            group : GroupEntries, stream : StreamEntries, seed : BOOLEAN,
            heuristic_restarts : 1..MaxRestarts,
            heuristic_iterations : {MaxIterations},
            use_direct_mapping : BOOLEAN, use_heuristic_search : BOOLEAN] :
        /\ \A k \in LCNames : c.dram[k] \in DramEntries(k)
        /\ (c.use_direct_mapping \/ ~c.use_heuristic_search)
              => (/\ c.heuristic_restarts = 1 /\ ~c.seed
                  /\ ~(c.use_direct_mapping /\ ~c.use_heuristic_search))}

NoCfg ==
    [dram |-> [k \in LCNames |-> [present |-> FALSE, src_id |-> NoSrc]],
     group |-> [present |-> FALSE, target |-> 0, sections |-> FALSE, row_src |-> NoKey,
                col_src |-> NoKey],
     stream |-> [present |-> FALSE, mode |-> "read", target |-> 0, idx |-> NoSrc],
     seed |-> FALSE, heuristic_restarts |-> 1, heuristic_iterations |-> 0,
     use_direct_mapping |-> FALSE, use_heuristic_search |-> TRUE]

\* The state after the resets at the start of init_modules.
Fresh ==
    [registry |-> {}, queue |-> <<>>, counter |-> 0, resolved |-> FALSE,
     index |-> [n \in Names |-> None], physical_id |-> [n \in Names |-> None],
     g_nodes |-> <<>>, connections |-> <<>>, node_metadata |-> [n \in Names |-> ""],
     m_nodes |-> <<>>, node_to_resource |-> [n \in Names |-> NoRes],
     assigned_node |-> [n \in Names |-> NoRes],
     resource_counters |-> [t \in PoolTypes |-> 0], use_direct_mapping |-> FALSE,
     err |-> ""]

\* The resets at the start of init_modules without "NodeGraph._instance =
\* None" (mutant).
reset_KeepGraph(S) ==
    [S EXCEPT !.queue = <<>>, !.registry = {}, !.counter = 0, !.resolved = FALSE]

\* The resets at the start of init_modules: the four class attributes of
\* NodeIndex, and the NodeGraph singleton, which NodeGraph.get() builds anew
\* with an empty Mapper.  The NodeIndex instances of the earlier run keep
\* their fields; the registry no longer reaches them.
reset(S) ==
    [S EXCEPT !.queue = <<>>, !.registry = {}, !.counter = 0, !.resolved = FALSE,
              !.g_nodes = <<>>, !.connections = <<>>,
              !.node_metadata = [n \in Names |-> ""],
              !.m_nodes = <<>>,
              !.node_to_resource = [n \in Names |-> NoRes],
              !.assigned_node = [n \in Names |-> NoRes],
              !.resource_counters = [t \in PoolTypes |-> 0],
              !.use_direct_mapping = FALSE]

\* DramLoopControlConfig.from_json for the entry e of key k.
from_json_dram(S, k, e) ==
    IF e.present THEN from_json_state(NodeIndex(S, k, ""), k, e.src_id) ELSE S

\* BufferLoopControlGroupConfig.from_json for the entry e of group key.
\* The three nodes are assigned from the target before the entry is tested
\* for sections; without sections the submodules are set empty.
from_json_group(S, key, e) ==
    IF ~e.present THEN S
    ELSE LET S1 == assign_node(S, key, <<"GROUP", e.target>>)
             S2 == assign_node(S1, row_lc_name(key), <<"ROW_LC", e.target>>)
             S3 == assign_node(S2, col_lc_name(key), <<"COL_LC", e.target>>)
             S4 == from_json_state(NodeIndex(S3, row_lc_name(key), ""),
                                   row_lc_name(key), e.row_src)
         IN  IF ~e.sections THEN S3
             ELSE from_json_state(NodeIndex(S4, col_lc_name(key), ""),
                                  col_lc_name(key), e.col_src)

\* StreamConfig.from_json for the entry e of the stream named name: the
\* submodule creates the node and the Connect of its idx list, then the
\* target fixes the resource.
from_json_stream(S, name, e) ==
    IF ~e.present THEN S
    ELSE LET S1 == NodeIndex(S, name, IF e.mode = "write" THEN "write" ELSE "read")
             S2 == IF e.idx.kind = "str" THEN Connect(S1, e.idx.s, name) ELSE S1
             resource == IF e.mode = "write" THEN <<"WRITE_STREAM", 0>>
                         ELSE <<"READ_STREAM", Max(0, Min(e.target, 3))>>
         IN  assign_node(S2, name, resource)

\* "for module in modules: module.from_json(cfg)" from position i of LCSeq on,
\* then the group and the stream.
RECURSIVE load_dram(_, _, _)
load_dram(S, c, i) ==
    IF i > Len(LCSeq) THEN S
    ELSE load_dram(from_json_dram(S, LCSeq[i], c.dram[LCSeq[i]]), c, i + 1)

load_modules(S, c) ==
    from_json_stream(from_json_group(load_dram(S, c, 1), "GROUP0", c.group),
                     "STREAM.stream0", c.stream)

\* module.values["src_id"] after loading (set_empty stores None).
load_values(c) ==
    [n \in Names |->
        CASE n \in LCNames ->
               IF c.dram[n].present THEN from_json_val(n, c.dram[n].src_id)
               ELSE NoneVal
          [] n = "GROUP0.ROW_LC" ->
               IF c.group.present /\ c.group.sections
               THEN from_json_val(n, c.group.row_src)
               ELSE NoneVal
          [] n = "GROUP0.COL_LC" ->
               IF c.group.present /\ c.group.sections
               THEN from_json_val(n, c.group.col_src)
               ELSE NoneVal
          [] OTHER -> IntVal(0)]

\* The NodeGraph rebuilt with a seed: connections, nodes, metadata,
\* assigned_node and node_to_resource are carried over, the rest is new.
rebuild_with_seed(S) ==
    [S EXCEPT !.m_nodes = <<>>, !.resource_counters = [t \in PoolTypes |-> 0],
              !.use_direct_mapping = FALSE]

(***************************************************************************)
(* Mapper.search (simulated annealing)                                     *)
(***************************************************************************)
\* A mapping (a dict from node to resource): NoRes for a node that is no key.
NoMapping == [n \in Names |-> NoRes]

\* Stagnation threshold and period of the random restart inside the loop.
StagnationLimit == 2000
RestartPeriod == 500

\* unique_nodes: the nodes of Mapper.nodes that appear in a connection.
unique_nodes(S) == SelectSeq(S.m_nodes, LAMBDA n : n \in nodes_in_connections(S))

\* assigned_nodes: the pre-assigned ones, left out of the search.
assigned_nodes(S) == SelectSeq(unique_nodes(S), LAMBDA n : S.assigned_node[n] # NoRes)

unique_search_nodes(S) ==
    SelectSeq(unique_nodes(S), LAMBDA n : S.assigned_node[n] = NoRes)

\* pool_key_for_node(n) (and intended_pool_key): the pool of the resource the
\* node holds, else the pool of its logical type ("" stands for None).
pool_key_for_node(S, n) ==
    IF S.node_to_resource[n] # NoRes
    THEN get_type_from_resource(S.node_to_resource[n])
    ELSE IF get_type(n) = "STREAM"
         THEN (IF S.node_metadata[n] \in {"", "read"} THEN "READ_STREAM"
               ELSE "WRITE_STREAM")
         ELSE get_type(n)

\* nodes_by_type[t]
type_nodes(S, t) ==
    SelectSeq(unique_search_nodes(S), LAMBDA n : pool_key_for_node(S, n) = t)

\* list(nodes_by_type.keys()), as a set.
type_keys(S) ==
    {pool_key_for_node(S, n) : n \in Range(unique_search_nodes(S))} \ {""}

\* The search nodes grouped by pool key, the keys in order of first
\* appearance: the order in which random_initial_mapping inserts them.
RECURSIVE grouped(_, _)
grouped(S, seq) ==
    IF seq = <<>> THEN <<>>
    ELSE LET t == pool_key_for_node(S, seq[1])
         IN  (IF t = "" THEN <<>>
              ELSE SelectSeq(seq, LAMBDA n : pool_key_for_node(S, n) = t))
             \o grouped(S, SelectSeq(seq, LAMBDA n : pool_key_for_node(S, n) # t))

\* The keys of a mapping of the search, in insertion order.
map_keys(S) == assigned_nodes(S) \o grouped(S, unique_search_nodes(S))

\* set(mapping.values())
used_resources(M) == {M[n] : n \in Names} \ {NoRes}

\* full_mapping: self.node_to_resource updated with the mapping.
full_mapping(S, M) ==
    [n \in Names |-> IF M[n] # NoRes THEN M[n] ELSE S.node_to_resource[n]]

\* The penalty of one connection under a mapping, endpoints renamed to their
\* group key when they end with ROW_LC or COL_LC (the body of the loop of
\* calculate_cost; _conn_penalty after the renaming of the repair move).
conn_penalty(S, M, c) ==
    LET src == group_prefix(c[1])
        dst == group_prefix(c[2])
        fm == full_mapping(S, M)
    IN  IF fm[src] # NoRes /\ fm[dst] # NoRes
        THEN LET s == parse_resource(fm[src])
                 d == parse_resource(fm[dst])
             IN  SumPenalty(1, s[1], s[2], d[1], d[2])
        ELSE 0

RECURSIVE cost_from(_, _, _)
cost_from(S, M, i) ==
    IF i > Len(S.connections) THEN 0
    ELSE conn_penalty(S, M, S.connections[i]) + cost_from(S, M, i + 1)

\* calculate_cost(mapping)
calculate_cost(S, M) == cost_from(S, M, 1)

\* random_initial_mapping(), from position i of the grouped search nodes:
\* the set of mappings the shuffles can produce (empty when pop(0) finds the
\* shuffled list empty).  taken holds the resources removed from the lists.
RECURSIVE initial_from(_, _, _, _, _)
initial_from(S, seq, i, M, taken) ==
    IF i > Len(seq) THEN {M}
    ELSE LET n == seq[i]
             t == pool_key_for_node(S, n)
             pre_used_res == {S.node_to_resource[a] : a \in Range(assigned_nodes(S))}
             existing == S.node_to_resource[n]
         IN  IF Len(type_nodes(S, t)) > PoolSize(t)
             THEN LET r == IF existing # NoRes THEN existing
                           ELSE resource_pools(t)[(Cardinality({a \in Names : M[a] # NoRes})
                                                   % PoolSize(t)) + 1]
                  IN  initial_from(S, seq, i + 1, [M EXCEPT ![n] = r], taken)
             ELSE LET shuffled == (Range(resource_pools(t)) \ pre_used_res) \ taken
                      choices == IF existing \in shuffled THEN {existing} ELSE shuffled
                  IN  UNION {initial_from(S, seq, i + 1, [M EXCEPT ![n] = r],
                                          taken \cup {r}) : r \in choices}

random_initial_mapping(S) ==
    initial_from(S, grouped(S, unique_search_nodes(S)), 1,
                 [n \in Names |-> IF InSeq(n, assigned_nodes(S))
                                  THEN S.node_to_resource[n] ELSE NoRes],
                 {})

\* A proposed move: the new mapping, or skip for "continue".
Skip == [skip |-> TRUE, m |-> NoMapping]

Move(M) == [skip |-> FALSE, m |-> M]

\* random.sample(type_nodes, 2) and the exchange of the two resources.
swap_moves(S, M, t) ==
    IF Len(type_nodes(S, t)) < 2 THEN {Skip}
    ELSE {Move([M EXCEPT ![p[1]] = M[p[2]], ![p[2]] = M[p[1]]]) :
            p \in {q \in Range(type_nodes(S, t)) \X Range(type_nodes(S, t)) :
                     q[1] # q[2]}}

\* r < 0.4: a random node of the type goes to a random unused resource of the
\* pool; a swap when every resource of the pool is used.
reassign_moves(S, M, t) ==
    LET unused_resources == Range(resource_pools(t)) \ used_resources(M)
    IN  IF unused_resources # {}
        THEN {Move([M EXCEPT ![node] = new_res]) :
                node \in Range(type_nodes(S, t)), new_res \in unused_resources}
        ELSE swap_moves(S, M, t)

\* The violated connections as tuples (penalty, src, dst), endpoints renamed.
violated(S, M) ==
    {v \in {<<conn_penalty(S, M, S.connections[i]), group_prefix(S.connections[i][1]),
              group_prefix(S.connections[i][2])>> : i \in 1..Len(S.connections)} :
        v[1] > 0}

\* Python's tuple order on (penalty, src, dst).
TupleGE(v, w) ==
    \/ v[1] > w[1]
    \/ v[1] = w[1] /\ NameRank(v[2]) > NameRank(w[2])
    \/ v[1] = w[1] /\ v[2] = w[2] /\ NameRank(v[3]) >= NameRank(w[3])

\* The trial of the repair move for a node: the first candidate of the pool,
\* in pool order, with the least total cost among the candidates that are
\* unused or the node's own; {} when there is no candidate.
repair_trials(S, M, node) ==
    LET pool == resource_pools(pool_key_for_node(S, node))
        ok(i) == ~(pool[i] \in used_resources(M) /\ pool[i] # M[node])
        cst(i) == calculate_cost(S, [M EXCEPT ![node] = pool[i]])
        cands == {i \in 1..Len(pool) : ok(i)}
    IN  {[M EXCEPT ![node] = pool[i]] :
            i \in {j \in cands : \A k \in cands : cst(j) < cst(k) \/ (cst(j) = cst(k) /\ j <= k)}}

\* 0.4 <= r < 0.4 + repair_prob: the repair move.
repair_moves(S, M, t) ==
    IF violated(S, M) = {} THEN swap_moves(S, M, t)
    ELSE LET worst == CHOOSE v \in violated(S, M) : \A w \in violated(S, M) : TupleGE(v, w)
             src_bad == worst[2]
             dst_bad == worst[3]
             searched == Range(unique_search_nodes(S))
             nodes == IF src_bad \in searched /\ dst_bad \in searched THEN {src_bad, dst_bad}
                      ELSE IF src_bad \in searched THEN {src_bad}
                      ELSE IF dst_bad \in searched THEN {dst_bad}
                      ELSE {}
         IN  IF nodes = {} THEN swap_moves(S, M, t)
             ELSE UNION {IF repair_trials(S, M, node) = {} THEN swap_moves(S, M, t)
                         ELSE {Move(m) : m \in repair_trials(S, M, node)} :
                         node \in nodes}

\* is_valid_unique_mapping(mapping)
is_valid_unique_mapping(S, M) ==
    /\ \A a, b \in Range(map_keys(S)) : a # b => M[a] # M[b]
    /\ \A n \in Range(map_keys(S)) :
          pool_key_for_node(S, n) # "" =>
              get_type_from_resource(M[n]) = pool_key_for_node(S, n)

\* The nodes that share a resource with an earlier key, listed resource by
\* resource (conflicts.items()) and then in key order (ns[1:]).
RECURSIVE conflict_others(_, _, _)
conflict_others(M, keys, i) ==
    IF i > Len(keys) THEN <<>>
    ELSE LET leader == \A j \in 1..(i - 1) : M[keys[j]] # M[keys[i]]
             later == SelectSeq(SubSeq(keys, i + 1, Len(keys)),
                                LAMBDA n : M[n] = M[keys[i]])
         IN  (IF leader THEN later ELSE <<>>) \o conflict_others(M, keys, i + 1)

\* The attempt to restore uniqueness: each such node takes the first free
\* resource of the pool of its logical type, if there is one.
RECURSIVE resolve_conflicts(_, _, _)
resolve_conflicts(M, others, i) ==
    IF i > Len(others) THEN M
    ELSE LET other == others[i]
             pool_for_type == resource_pools(get_type(other))
             free == {k \in 1..Len(pool_for_type) : pool_for_type[k] \notin used_resources(M)}
             M1 == IF free # {}
                   THEN [M EXCEPT ![other] = pool_for_type[CHOOSE k \in free :
                                                             \A l \in free : k <= l]]
                   ELSE M
         IN  resolve_conflicts(M1, others, i + 1)

\* The mapping evaluated after the uniqueness test and repair, or Skip.
validated(S, M) ==
    IF is_valid_unique_mapping(S, M) THEN Move(M)
    ELSE LET M1 == resolve_conflicts(M, conflict_others(M, map_keys(S), 1), 1)
         IN  IF is_valid_unique_mapping(S, M1) THEN Move(M1) ELSE Skip

\* The local variables of search before the first call.
NoSearch ==
    [attempt |-> 0, iteration |-> 0, stagnation |-> 0,
     current_mapping |-> NoMapping, current_cost |-> 0,
     best_mapping |-> NoMapping, best_cost |-> 0, brk |-> FALSE]

\* The local variables after the initial mapping m0 was drawn.
search_begin(S, attempt, m0) ==
    [attempt |-> attempt, iteration |-> 0, stagnation |-> 0,
     current_mapping |-> m0, current_cost |-> calculate_cost(S, m0),
     best_mapping |-> m0, best_cost |-> calculate_cost(S, m0), brk |-> FALSE]

\* The end of an iteration that reached the cooling step: the random restart
\* of the loop, or one more stagnant iteration.  m is the mapping a restart
\* draws.
end_of_iteration(S, A, m) ==
    IF A.stagnation > StagnationLimit /\ A.iteration % RestartPeriod = 0
    THEN [A EXCEPT !.current_mapping = m, !.current_cost = calculate_cost(S, m),
                   !.stagnation = 0, !.iteration = @ + 1]
    ELSE [A EXCEPT !.stagnation = @ + 1, !.iteration = @ + 1]

\* The outcomes of "random.random() < acceptance_prob" that matter for a
\* move: both when the cost rises, acceptance otherwise.
acceptance_outcomes(S, A, mv) ==
    IF mv.skip \/ validated(S, mv.m).skip THEN {TRUE}
    ELSE IF calculate_cost(S, validated(S, mv.m).m) > A.current_cost THEN BOOLEAN
    ELSE {TRUE}

\* One iteration of the loop on the proposed move mv; accept is the outcome of
\* "random.random() < acceptance_prob", which is certain when the cost does
\* not rise; m is the mapping a restart would draw.
iteration_step(S, A, mv, accept, m) ==
    IF mv.skip \/ validated(S, mv.m).skip THEN [A EXCEPT !.iteration = @ + 1]
    ELSE LET new_mapping == validated(S, mv.m).m
             new_cost == calculate_cost(S, new_mapping)
             cost_delta == new_cost - A.current_cost
             taken == [A EXCEPT !.current_mapping = new_mapping,
                                !.current_cost = new_cost, !.stagnation = 0]
         IN  IF cost_delta < 0
             THEN IF new_cost < A.best_cost
                  THEN LET B == [taken EXCEPT !.best_mapping = new_mapping,
                                              !.best_cost = new_cost]
                       IN  IF new_cost = 0 THEN [B EXCEPT !.brk = TRUE]
                           ELSE end_of_iteration(S, B, m)
                  ELSE end_of_iteration(S, taken, m)
             ELSE IF accept \/ cost_delta = 0 THEN end_of_iteration(S, taken, m)
                  ELSE end_of_iteration(S, A, m)

\* The post-processing of best_mapping: the COL_LC node of a group takes the
\* index of the group's ROW_LC node.
post_process(M) ==
    [n \in Names |->
        IF \E r \in Names : /\ M[r] # NoRes /\ col_lc_node(r) = n /\ M[r][1] = "ROW_LC"
                            /\ M[n] # NoRes
        THEN LET r == CHOOSE r \in Names : M[r] # NoRes /\ col_lc_node(r) = n
             IN  <<"COL_LC", M[r][2]>>
        ELSE M[n]]

\* The state when search returns: self.node_to_resource = best_mapping.
search_return(S, A) == [S EXCEPT !.node_to_resource = post_process(A.best_mapping)]

\* The value heuristic_search_mapping returns for the mapping search returned.
heuristic_search_mapping(A) ==
    IF \A n \in Names : A.best_mapping[n] = NoRes THEN Inf ELSE A.best_cost

(***************************************************************************)
(* Bitstream assembly (parse.py)                                           *)
(***************************************************************************)
\* A bit string is a sequence of 0 and 1; "" is <<>>.
Zeros(n) == [i \in 1..n |-> 0]

\* ''.join(parts) for a sequence of bit strings.
RECURSIVE Join(_)
Join(parts) ==
    IF parts = <<>> THEN <<>> ELSE Head(parts) \o Join(Tail(parts))

\* class ModuleID(IntEnum): the module kinds IGA_LC = 0 .. GENERAL_PE = 11.
ModuleIDs == 0..11

\* MODULE_CFG_CHUNK_SIZES[module_id] and MODULE_ID_TO_MASK[module_id]
\* (Python lists, indexed from 0).
MODULE_CFG_CHUNK_SIZES(module_id) ==
    <<1, 1, 1, 2, 10, 8, 1, 1, 1, 1, 1, 4>>[module_id + 1]

MODULE_ID_TO_MASK(module_id) ==
    <<0, 0, 0, 0, 1, 1, 1, 1, 2, 3, 3, 3>>[module_id + 1]

\* split_config that cuts exactly num_chunks slices of chunk_size bits and
\* drops what is left over (mutant).
split_config_Truncating(config, module_id) ==
    IF Len(config) = 0 THEN <<>>
    ELSE LET num_chunks == MODULE_CFG_CHUNK_SIZES(module_id)
             chunk_size == Len(config) \div num_chunks
         IN  IF num_chunks <= 0 THEN <<>>
             ELSE IF chunk_size = 0 THEN <<config>>
             ELSE [k \in 1..num_chunks |->
                      SubSeq(config, (k - 1) * chunk_size + 1, k * chunk_size)]

\* split_config(config, module_id): the slices config[i:i + chunk_size] for
\* i in range(0, len(config), chunk_size); the whole string when it is
\* shorter than the chunk count; [] for the empty string.
split_config(config, module_id) ==
    IF Len(config) = 0 THEN <<>>
    ELSE LET num_chunks == MODULE_CFG_CHUNK_SIZES(module_id)
             chunk_size == Len(config) \div num_chunks
         IN  IF num_chunks <= 0 THEN <<>>
             ELSE IF chunk_size = 0 THEN <<config>>
             ELSE [k \in 1..((Len(config) + chunk_size - 1) \div chunk_size) |->
                      SubSeq(config, (k - 1) * chunk_size + 1,
                             Min(k * chunk_size, Len(config)))]

\* "not config or set(config) == {'0'}"
all_zero(config) == \A i \in 1..Len(config) : config[i] = 0

\* The strings one pass of the loop of generate_bitstream appends for the
\* entry (mid, config): nothing when the group's mask bit is 0, one run of
\* zeros for an empty or all-zero config, else '1' + chunk for each chunk.
entry_frames(mid, config, mask) ==
    IF mask[MODULE_ID_TO_MASK(mid) + 1] = 0 THEN <<>>
    ELSE IF all_zero(config) THEN <<Zeros(MODULE_CFG_CHUNK_SIZES(mid))>>
    ELSE LET chunks == split_config(config, mid)
         IN  [k \in 1..Len(chunks) |-> <<1>> \o chunks[k]]

\* The padding computed as 64 - len % 64, a full line when the stream is
\* already aligned (mutant).
padding_FullLine(n) == Zeros(64 - (n % 64))

\* The padding to the next 64-bit boundary.
padding(n) == Zeros((64 - (n % 64)) % 64)

\* generate_bitstream(entries, config_mask): the stream, with the strings
\* appended for each entry kept apart in frames.
generate_bitstream(es, mask) ==
    LET frames == [i \in 1..Len(es) |->
                      entry_frames(es[i][1], es[i][2], mask)]
        body == mask \o Join([i \in 1..Len(es) |-> Join(frames[i])])
    IN  [done |-> TRUE, frames |-> frames, bits |-> body \o padding(Len(body))]

\* No call of write_bitstream yet.
NoFile == [done |-> FALSE, err |-> "", bits |-> <<>>]

\* No call of generate_bitstream yet.
NoStream == [done |-> FALSE, frames |-> <<>>, bits |-> <<>>]

\* 2**n
RECURSIVE Pow2(_)
Pow2(n) == IF n = 0 THEN 1 ELSE 2 * Pow2(n - 1)

\* bitstring(bits) for one Bit(value, width): Bit keeps value & (2**width - 1),
\* the format f'{value:0{width}b}' writes it with width digits, highest first.
bitstring(value, width) ==
    [i \in 1..width |-> ((value % Pow2(width)) \div Pow2(width - i)) % 2]

\* int("".join(str(v) for v in x), 2) for a list x of 0 and 1.
RECURSIVE int_base2(_)
int_base2(x) ==
    IF x = <<>> THEN 0 ELSE 2 * int_base2(SubSeq(x, 1, Len(x) - 1)) + x[Len(x)]

\* A value of a BufferConfig field: None, an int, or a list of ints; Missing
\* stands for a key that the configuration does not hold.
BNone == [kind |-> "None", n |-> 0, l |-> <<>>]

BInt(k) == [kind |-> "int", n |-> k, l |-> <<>>]

BList(x) == [kind |-> "list", n |-> 0, l |-> x]

Missing == [kind |-> "missing", n |-> 0, l |-> <<>>]

\* BufferConfig.FIELD_MAP: the field names in order, and their widths.
BufferFields == <<"dst_port", "buffer_life_time", "mode", "mask">>

BufferWidth(name) ==
    CASE name = "dst_port" -> 1
      [] name = "buffer_life_time" -> 2
      [] name = "mode" -> 1
      [] name = "mask" -> 8

\* BufferConfig(idx): BaseConfigModule.__init__ sets every field to 0 and
\* _is_empty to False; enable starts at 1.
BufferConfig ==
    [values |-> [f \in Range(BufferFields) |-> BInt(0)],
     marked_empty |-> FALSE,
     enable |-> 1]

\* BaseConfigModule.mark_empty()
mark_empty(m) == [m EXCEPT !.marked_empty = TRUE]

\* BaseConfigModule.is_empty() of a leaf module: the mark, else
\* all(v is None or v == 0): a list never equals 0.
is_empty(m) ==
    \/ m.marked_empty
    \/ \A f \in DOMAIN m.values :
          \/ m.values[f].kind = "None"
          \/ (m.values[f].kind = "int" /\ m.values[f].n = 0)

\* BufferConfig.from_json(cfg) where cfg holds buffer_cfg under the module's
\* key ("absent" when the key is missing): enable is read with default 1 and
\* BaseConfigModule.from_json stores the raw value of every field present
\* (the mappers take one argument and are not applied here).
buffer_from_json(m, buffer_cfg) ==
    IF buffer_cfg.absent THEN m
    ELSE [m EXCEPT !.enable = buffer_cfg.enable,
                   !.values = [f \in DOMAIN m.values |->
                                  IF buffer_cfg.fields[f] = Missing THEN m.values[f]
                                  ELSE buffer_cfg.fields[f]]]

\* The one-argument mapper of a BufferConfig field applied to a stored value;
\* [err] when the lambda raises.
buffer_mapper(name, v) ==
    CASE name = "buffer_life_time" ->
            IF v.kind = "int" THEN [err |-> "", v |-> BInt(v.n - 1)]
            ELSE [err |-> "TypeError", v |-> v]
      [] name = "mask" ->
            IF v.kind = "list"
            THEN IF v.l = <<>> THEN [err |-> "ValueError", v |-> v]
                 ELSE [err |-> "", v |-> BInt(int_base2(v.l))]
            ELSE [err |-> "", v |-> v]
      [] OTHER -> [err |-> "", v |-> v]

\* _encode_list(val, width) followed by bitstring: every element written with
\* max(1, width // len(val)) digits (more when the element needs more: the
\* elements here are 0 and 1).
encode_list_bits(x, width) ==
    LET bits_per_elem == Max(1, width \div Len(x))
    IN  Join([i \in 1..Len(x) |-> bitstring(x[i], bits_per_elem)])

\* _encode_field(val, mapper, width) followed by bitstring, for one field.
buffer_field_bits(name, v) ==
    LET mapped == buffer_mapper(name, v)
        width == BufferWidth(name)
    IN  IF mapped.err # "" THEN [err |-> mapped.err, bits |-> <<>>]
        ELSE IF mapped.v.kind = "None" THEN [err |-> "", bits |-> Zeros(width)]
        ELSE IF mapped.v.kind = "int"
             THEN [err |-> "", bits |-> bitstring(mapped.v.n, width)]
        ELSE IF mapped.v.l = <<>> THEN [err |-> "ZeroDivisionError", bits |-> <<>>]
        ELSE [err |-> "", bits |-> encode_list_bits(mapped.v.l, width)]

\* bitstring(module.to_bits()) for a BufferConfig: "" when enable is falsy,
\* else the fields in FIELD_MAP order; the first exception ends the call.
buffer_to_bits(m) ==
    IF m.enable = 0 THEN [err |-> "", bits |-> <<>>]
    ELSE LET parts == [i \in 1..Len(BufferFields) |->
                          buffer_field_bits(BufferFields[i], m.values[BufferFields[i]])]
             bad == {i \in 1..Len(BufferFields) : parts[i].err # ""}
         IN  IF bad # {}
             THEN [err |-> parts[CHOOSE i \in bad : \A j \in bad : i <= j].err,
                   bits |-> <<>>]
             ELSE [err |-> "", bits |-> Join([i \in 1..Len(parts) |-> parts[i].bits])]

\* ModuleID.BUFFER_MANAGER_CLUSTER
BUFFER_MANAGER_CLUSTER == 7

\* The layout of build_entries for a module list that holds one BufferConfig
\* and nothing else, with no module registered in the mapper: (module_id,
\* count) in layout order.
layout ==
    << <<0, 20>>, <<1, 5>>, <<2, 5>>, <<3, 10>>, <<4, 4>>, <<5, 1>>, <<6, 1>>,
       <<6, 1>>, <<BUFFER_MANAGER_CLUSTER, 1>>, <<8, 1>>, <<9, 0>>, <<10, 1>>,
       <<11, 0>> >>

\* The position of the buffer's entry in the entry list.
buffer_entry ==
    LET es == Join([r \in 1..Len(layout) |->
                       [i \in 1..layout[r][2] |-> layout[r][1]]])
    IN  CHOOSE i \in 1..Len(es) : es[i] = BUFFER_MANAGER_CLUSTER

\* build_entries(modules) for that module list: add_entry appends
\* (module_id, bitstring(module.to_bits())) for the buffer and (module_id, '')
\* for every getter that returns None.
build_entries(m) ==
    LET rows == [r \in 1..Len(layout) |->
                    [i \in 1..layout[r][2] |->
                        <<layout[r][1],
                          IF layout[r][1] = BUFFER_MANAGER_CLUSTER
                          THEN buffer_to_bits(m).bits ELSE <<>> >>]]
    IN  Join(rows)

\* The length of bitstring(module.to_bits()) for a module of each kind: the
\* sum of the widths of its FIELD_MAP (of its submodules' for the special
\* array).
EntryBits(module_id) ==
    <<47, 15, 24, 62, 580, 496, 7, 12, 34, 10, 6, 71>>[module_id + 1]

\* Bounds of the assembler inputs: entries per catalog, and the longest of
\* the short bit strings tried beside the schema lengths.
MaxEntries == 2
MaxBits == 3

\* A bit string of n bits that starts with 1 and has no period: 1 at the
\* square positions.
Pattern(n) == [i \in 1..n |-> IF \E k \in 1..25 : k * k = i THEN 1 ELSE 0]

\* The config strings tried for an entry of a kind: '' (no module), the
\* all-zero and a populated string of the schema length, and short strings.
Configs(module_id) ==
    {<<>>, Zeros(EntryBits(module_id)), Pattern(EntryBits(module_id))}
        \cup {Pattern(n) : n \in 1..MaxBits}

\* The config strings of the second configuration: the module absent, or
\* populated.
OtherConfigs(module_id) == {<<>>, Pattern(EntryBits(module_id))}

\* The masks tried: all groups on, one group off, all groups off.
Masks ==
    {m \in [1..4 -> {0, 1}] : Cardinality({i \in 1..4 : m[i] = 0}) \in {0, 1, 4}}

\* The catalogs: module kinds in layout order (build_entries emits the kinds
\* in ascending order).
Catalogs ==
    UNION {{c \in [1..n -> ModuleIDs] : \A i \in 1..(n - 1) : c[i] <= c[i + 1]}
              : n \in 1..MaxEntries}

\* The assembler and the module outside a run of their specifications.
InitNoStream ==
    /\ config_mask = <<0, 0, 0, 0>>
    /\ entries = <<<<>>, <<>>>>
    /\ bitstream = <<NoStream, NoStream>>
    /\ binary_output = <<NoFile, NoFile>>

InitNoModule == module = BufferConfig

\* No Bit under test.
NoBit == [b |-> [value |-> 0, width |-> 1], op |-> "", n |-> 0,
          r |-> [value |-> 0, width |-> 1, err |-> ""]]

InitNoBit == bit = NoBit

\* The variables of init_modules and search outside a run of init_modules.
InitIdle ==
    /\ pc = "api"
    /\ cfg = NoCfg
    /\ sa = NoSearch
    /\ last_mapping_cost = Inf
    /\ attempt_costs = <<>>

(***************************************************************************)
(* Constraint evaluation (specification SpecC)                             *)
(***************************************************************************)
\* Inputs of the constraint specification: any constraint class on any
\* ordered pair of pool slots.
InitC ==
    /\ cst_in \in [cst : Range(constraints), src : ConstraintSlots, dst : ConstraintSlots]
    /\ cst_out = NoEval
    /\ InitSym /\ InitGraph /\ InitMapper /\ InitValues
    /\ InitNoStream /\ InitNoModule /\ InitNoBit
    /\ InitIdle
    /\ last = NoOp

\* One call of check() and penalty() on the chosen arguments.
Evaluate ==
    /\ ~cst_out.done
    /\ cst_out' = [done |-> TRUE,
                   check |-> check(cst_in.cst, cst_in.src[1], cst_in.src[2],
                                   cst_in.dst[1], cst_in.dst[2]),
                   penalty |-> penalty(cst_in.cst, cst_in.src[1], cst_in.src[2],
                                       cst_in.dst[1], cst_in.dst[2])]
    /\ UNCHANGED <<cst_in, bit, asmvars, symvars, graphvars, mapvars, values, pvars, last>>

NextC == Evaluate

SpecC == InitC /\ [][NextC]_vars

\* C3: under a "distance 1 or 2" constraint (PE to PE, LC to LC within one
\* row) an edge whose endpoints sit at index distance 0 or 5 has a strictly
\* positive penalty.
C3_DistanceZeroOrFivePenalised ==
    LET s == cst_in.src
        d == cst_in.dst
        pe == /\ cst_in.cst = "PEtoPEConstraint"
              /\ s[1] = "PE" /\ d[1] = "PE"
              /\ Abs(d[2] - s[2]) \in {0, 5}
        lc == /\ cst_in.cst = "LCtoLCConstraint"
              /\ s[1] = "LC" /\ d[1] = "LC"
              /\ s[2] \div 8 = d[2] \div 8
              /\ Abs((d[2] % 8) - (s[2] % 8)) \in {0, 5}
    IN  (cst_out.done /\ (pe \/ lc)) => cst_out.penalty > 0

\* C4: for every constraint class and every pair of pool slots, penalty() is
\* non-negative, and whenever check() returns true the penalty is exactly 0.
C4_PenaltyNonNegativeAndZeroWhenAdmissible ==
    cst_out.done =>
        /\ cst_out.penalty >= 0
        /\ (cst_out.check => cst_out.penalty = 0)

(***************************************************************************)
(* The operations of the symbol table, graph and placer, called in any     *)
(* order (specification Spec)                                              *)
(***************************************************************************)
\* Bounds of the model.
MaxNodes == 2
MaxEdges == 2

\* The names the callers of this specification use: a DRAM loop controller,
\* a PE and a stream.
ApiNames == {"DRAM_LC.LC0", "LC_PE.PE0", "STREAM.stream0"}

\* The names the program has seen so far (created or assigned).
Known == registry \cup Range(m_nodes)

\* A name may be introduced while fewer than MaxNodes are known.
CanIntroduce(name) == name \in Known \/ Cardinality(Known) < MaxNodes

\* The target letters 'A', 'B' of the configuration, as indices.
AssignTargets == {0, 1}

\* The resources the configuration modules pass to assign_node: a group key
\* gets GROUP<t>, its children ROW_LC<t> and COL_LC<t>, a stream
\* READ_STREAM<t> or WRITE_STREAM0; loop controllers and PEs are never assigned.
AssignChoices(node) ==
    CASE node \in GroupNames -> {<<"GROUP", t>> : t \in AssignTargets}
      [] node \in ROWNames -> {<<"ROW_LC", t>> : t \in AssignTargets}
      [] node \in COLNames -> {<<"COL_LC", t>> : t \in AssignTargets}
      [] node \in StreamNames ->
            {<<"READ_STREAM", t>> : t \in AssignTargets} \cup {<<"WRITE_STREAM", 0>>}
      [] OTHER -> {}

\* The stream_type metadata a module passes to NodeIndex for a name.
MetaChoices(name) == IF name \in StreamNames THEN {"", "read", "write"} ELSE {""}

Init ==
    /\ cst_in = [cst |-> "LCtoLCConstraint", src |-> <<"LC", 0>>, dst |-> <<"LC", 0>>]
    /\ cst_out = NoEval
    /\ InitSym /\ InitGraph /\ InitMapper /\ InitValues
    /\ InitNoStream /\ InitNoModule /\ InitNoBit
    /\ InitIdle
    /\ last = NoOp

\* The record of the last call: the operation, its arguments, whether its key
\* (the name, the ordered pair) was already recorded before the call, and the
\* value, width and exception it produced.
Did(op, a, b, re, val, w, err) ==
    last' = [op |-> op, a |-> a, b |-> b, re |-> re, val |-> val, w |-> w, err |-> err]

\* NodeIndex(name, **metadata)
DoNodeIndex(name, metadata) ==
    /\ CanIntroduce(name)
    /\ Becomes(NodeIndex(Cur, name, metadata))
    /\ Did("NodeIndex", name, metadata, name \in registry, None, 0, "")
    /\ UNCHANGED <<cvars, asmvars, values, pvars>>

\* Connect(src, dst)
DoConnect(src, dst) ==
    /\ dst \in registry
    /\ CanIntroduce(src)
    /\ InSeq(<<src, dst>>, connections) \/ Len(connections) < MaxEdges
    /\ Becomes(Connect(Cur, src, dst))
    /\ Did("Connect", src, dst, InSeq(<<src, dst>>, connections), None, 0, "")
    /\ UNCHANGED <<cvars, asmvars, values, pvars>>

\* NodeGraph.get().assign_node(node, resource)
DoAssignNode(node, resource) ==
    /\ resource \in AssignChoices(node)
    /\ CanIntroduce(node)
    /\ assigned_node[node] = NoRes
    /\ Becomes(assign_node(Cur, node, resource))
    /\ Did("assign_node", node, "", FALSE, None, 0, "")
    /\ UNCHANGED <<cvars, asmvars, values, pvars>>

\* NodeGraph.get().allocate_resources(only_connected_nodes)
DoAllocateResources(only_connected_nodes, order) ==
    /\ order \in Orders(nodes_in_connections(Cur))
    /\ only_connected_nodes \/ order = CHOOSE o \in Orders(nodes_in_connections(Cur)) : TRUE
    /\ LET S == allocate_resources(Cur, only_connected_nodes, order)
       IN  /\ Becomes(S)
           /\ Did("allocate_resources", IF only_connected_nodes THEN "connected" ELSE "all",
                  "", FALSE, None, 0, S.err)
    /\ UNCHANGED <<cvars, asmvars, values, pvars>>

\* NodeIndex.resolve_all()
DoResolveAll ==
    /\ Becomes(resolve_all(Cur))
    /\ Did("resolve_all", "", "", resolved, None, 0, "")
    /\ UNCHANGED <<cvars, asmvars, values, pvars>>

\* int(node) for a NodeIndex instance
DoIntNode(n) ==
    /\ n \in registry
    /\ Becomes(physical_id_state(Cur, n))
    /\ LET r == NodeIndex_int(Cur, n) IN Did("int(node)", n, "", FALSE, r.val, 0, r.err)
    /\ UNCHANGED <<cvars, asmvars, values, pvars>>

\* int(c) for a Connect c = Connect(src, dst) constructed earlier
DoIntConnect(src, dst) ==
    /\ InSeq(<<src, dst>>, connections)
    /\ Becomes(Connect_int_state(Cur, src, dst))
    /\ LET r == Connect_int(Cur, src, dst) IN Did("int(Connect)", src, dst, FALSE, r.val, 0, r.err)
    /\ UNCHANGED <<cvars, asmvars, values, pvars>>

\* BaseConfigModule.from_json for a configuration entry that holds src_id = raw,
\* on the module m whose self.id is the registered node m.
DoFromJson(m, raw) ==
    /\ m \in RefModules /\ m \in registry
    /\ raw \in RawValues
    /\ LET v == src_id_mapper_val(m, raw)
       IN  /\ v.kind = "Connect" =>
                /\ CanIntroduce(v.s)
                /\ InSeq(<<v.s, m>>, connections) \/ Len(connections) < MaxEdges
           /\ Becomes(src_id_mapper_state(Cur, m, raw))
           /\ values' = [values EXCEPT ![m] = v]
           /\ Did("from_json", m, IF Absent(raw) THEN "absent" ELSE raw.kind, FALSE, None, 0, "")
    /\ UNCHANGED <<cvars, asmvars, pvars>>

\* _encode_field for src_id of module m (a step of to_bits).
DoEncodeField(m) ==
    /\ m \in RefModules /\ m \in registry
    /\ Becomes(encode_field_state(Cur, m, values[m]))
    /\ LET r == encode_field(Cur, m, values[m])
       IN  Did("encode_field", m, values[m].kind, FALSE, r.val, r.w, r.err)
    /\ UNCHANGED <<cvars, asmvars, values, pvars>>

Next ==
    \/ \E name \in ApiNames : \E metadata \in MetaChoices(name) : DoNodeIndex(name, metadata)
    \/ \E src \in ApiNames, dst \in ApiNames : DoConnect(src, dst)
    \/ \E node \in ApiNames : \E resource \in AssignChoices(node) : DoAssignNode(node, resource)
    \/ \E oc \in BOOLEAN : \E order \in Orders(nodes_in_connections(Cur)) :
            DoAllocateResources(oc, order)
    \/ DoResolveAll
    \/ \E n \in ApiNames : DoIntNode(n)
    \/ \E src \in ApiNames, dst \in ApiNames : DoIntConnect(src, dst)

Spec == Init /\ [][Next]_vars

\* The part of the symbol table a repeated NodeIndex request must leave alone.
symtable == <<registry, queue, counter, resolved, index, physical_id>>

\* C5: NodeIndex(name) for a name already registered (requested directly or
\* as the source of a Connect) adds no registry entry, does not enqueue the
\* node again, and leaves every sequential index and physical id unchanged.
C5_RepeatedRequestAddsNothing ==
    [][(last'.op \in {"NodeIndex", "Connect"} /\ last'.a \in registry)
         => (symtable' = symtable /\ g_nodes' = g_nodes)]_vars

\* A resolved node was requested again by name.
C5_Witness ==
    /\ last.op = "NodeIndex" /\ last.re
    /\ resolved /\ index[last.a] # None /\ queue = <<>>

\* C6: when resolve_all() returns, every node created before the call has a
\* sequential index and a physical id, and the indices follow creation order
\* (0, 1, 2, ...) without gaps or repeats, also for nodes created after an
\* earlier resolve_all().
C6_ResolveAllIndexesEveryNode ==
    last.op = "resolve_all" =>
        \A i \in 1..Len(g_nodes) :
            /\ index[g_nodes[i]] = i - 1
            /\ physical_id[g_nodes[i]] # None

\* C7: after resolve_all(), int(node) of a node the placement maps to a slot
\* of a resource class is the numeric index of that slot.
C7_IntIsSlotIndex ==
    (/\ last.op = "int(node)"
     /\ resolved
     /\ node_to_resource[last.a] \notin {NoRes, GENERIC})
        => (last.err = "" /\ last.val = resource_id(node_to_resource[last.a]))

\* C8: Connect(src, dst) records the edge (src, dst) at construction and both
\* endpoints as graph nodes, and the edge list holds each ordered pair at most
\* once.
C8_EdgeRecordedOnce ==
    /\ last.op = "Connect" => InSeq(<<last.a, last.b>>, connections)
    /\ \A i \in 1..Len(connections) :
          /\ InSeq(connections[i][1], g_nodes)
          /\ InSeq(connections[i][2], g_nodes)
    /\ \A i, j \in 1..Len(connections) :
          connections[i] = connections[j] => i = j

\* A Connect was constructed for a pair already recorded, before any
\* placement or resolution, beside another recorded edge.
C8_Witness ==
    /\ last.op = "Connect" /\ last.re
    /\ ~resolved
    /\ \A n \in Names : node_to_resource[n] = NoRes
    /\ Len(connections) = MaxEdges

\* The ordered class pairs that some constraint of the placer rejects for at
\* least one pair of slots.
Constrained(src_type, dst_type) ==
    \E i \in 1..Len(constraints) : \E s \in ConstraintSlots, d \in ConstraintSlots :
        /\ s[1] = src_type /\ d[1] = dst_type
        /\ ~check(constraints[i], s[1], s[2], d[1], d[2])

\* C10: converting a Connect whose class pair is restricted by a constraint
\* uses a rule of the resolver, and converting one whose class pair has no
\* rule ends in an error.
C10_EveryConstrainedPairHasRule ==
    last.op = "int(Connect)" =>
        LET src_type == get_node_type(last.a)
            dst_type == get_node_type(last.b)
        IN  /\ Constrained(src_type, dst_type) => HasRule(src_type, dst_type)
            /\ ~HasRule(src_type, dst_type) => last.err # ""

\* Population and encoding of node-reference fields (specification SpecF).
NextF ==
    \/ \E name \in Names : \E metadata \in MetaChoices(name) : DoNodeIndex(name, metadata)
    \/ \E m \in RefModules : \E raw \in RawValues : DoFromJson(m, raw)
    \/ \E m \in RefModules : DoEncodeField(m)

SpecF == Init /\ [][NextF]_vars

\* C9: populating a node-reference field from an absent raw value (None or
\* empty) and encoding the field it leaves create no Connect, record no edge
\* and do not resolve (flag, queue, indices unchanged); the field encodes as
\* one zero of the declared width.
C9_AbsentReferenceEncodesZero ==
    [][/\ (last'.op = "from_json" /\ last'.b = "absent")
            => (/\ values'[last'.a] = NoneVal
                /\ symtable' = symtable
                /\ g_nodes' = g_nodes /\ connections' = connections)
       /\ (last'.op = "encode_field" /\ values[last'.a] = NoneVal)
            => (/\ last'.val = 0 /\ last'.w = src_id_width(last'.a)
                /\ last'.err = ""
                /\ symtable' = symtable
                /\ g_nodes' = g_nodes /\ connections' = connections)]_vars

\* A field populated from an absent value was encoded while nodes were still
\* waiting for resolution.
C9_Witness ==
    /\ last.op = "encode_field" /\ last.b = "None"
    /\ last.val = 0 /\ last.w = src_id_width(last.a)
    /\ ~resolved /\ queue # <<>>

(***************************************************************************)
(* init_modules (specification SpecPipeline)                               *)
(***************************************************************************)
\* A call of init_modules ends at its module list.  The statements that
\* follow the list in its body (parse.py 108-210) run only when a caller
\* makes them itself, on modules it has constructed and through
\* NodeGraph.get() and NodeIndex; LoadModules, BeginAttempt, SearchIteration,
\* SearchFinish and FillInAndResolve are these statements, in the order of
\* the body.
\* A new process holds any configuration of the bounded set.
InitP ==
    /\ cst_in = [cst |-> "LCtoLCConstraint", src |-> <<"LC", 0>>, dst |-> <<"LC", 0>>]
    /\ cst_out = NoEval
    /\ InitSym /\ InitGraph /\ InitMapper /\ InitValues
    /\ InitNoStream /\ InitNoModule /\ InitNoBit
    /\ pc = "load"
    /\ cfg \in Configurations
    /\ sa = NoSearch
    /\ last_mapping_cost = Inf
    /\ attempt_costs = <<>>
    /\ last = NoOp

\* init_modules(cfg, ...), the whole call: the resets, then the module list,
\* whose TypeError ends the call before any module is loaded.  The record of
\* the call holds whether the nodes had been resolved and how many edges the
\* graph held when the call was made.
InitModules ==
    /\ pc \in {"load", "done", "error"}
    /\ Becomes(reset(Cur))
    /\ values' = values
    /\ pc' = "error"
    /\ sa' = NoSearch
    /\ last_mapping_cost' = Inf
    /\ attempt_costs' = <<>>
    /\ Did("init_modules", "", "", resolved, None, Len(connections), build_modules(cfg))
    /\ UNCHANGED <<cvars, asmvars, cfg>>

\* The statement of init_modules after the module list, made by a caller on
\* modules it constructs one by one (DramLoopControlConfig(i),
\* BufferLoopControlGroupConfig(i), StreamConfig(i)): module.from_json(cfg)
\* for each module, on the state as it is, in a new process or after a call
\* of init_modules has made the resets and ended at its module list.
LoadModules ==
    /\ pc = "load" \/ (pc = "error" /\ last.op = "init_modules")
    /\ Becomes(load_modules(Cur, cfg))
    /\ values' = load_values(cfg)
    /\ pc' = "alloc"
    /\ Did("from_json", "", "", FALSE, None, 0, "")
    /\ UNCHANGED <<cvars, asmvars, cfg, sa, last_mapping_cost, attempt_costs>>

\* The connected nodes that allocate_resources does not skip.
pending(S) == {n \in nodes_in_connections(S) : S.node_to_resource[n] = NoRes}

\* The statements of init_modules that start an attempt, made by the caller
\* that loaded the modules: for a retry the resets and the reload, the rebuild
\* of the NodeGraph when a seed is given, the direct-mapping flag,
\* allocate_resources for the connected nodes (order is the order in which
\* the iteration of the set meets the nodes it does not skip), and then,
\* by the arguments, direct_mapping(), the start of search up to the initial
\* mapping, or nothing; without search the call goes on to the fill-in.
BeginAttempt ==
    /\ pc = "alloc"
    /\ LET S0 == IF sa.attempt > 0 THEN load_modules(Fresh, cfg) ELSE Cur
           Sr == IF cfg.seed THEN rebuild_with_seed(S0) ELSE S0
           S1 == IF cfg.use_direct_mapping /\ sa.attempt = 0
                 THEN [Sr EXCEPT !.use_direct_mapping = TRUE] ELSE Sr
       IN  \E order \in Orders(pending(S1)) :
           LET S2 == allocate_resources(S1, TRUE, order)
               searches == ~cfg.use_direct_mapping /\ cfg.use_heuristic_search
           IN  /\ Becomes(S2)
               /\ IF S2.err # "" \/ (searches /\ random_initial_mapping(S2) = {})
                  THEN /\ pc' = "error"
                       /\ sa' = sa
                       /\ Did("allocate_resources", "connected", "", FALSE, None, 0,
                              IF S2.err # "" THEN S2.err ELSE "IndexError")
                  ELSE IF ~searches
                  THEN /\ pc' = "fill"
                       /\ sa' = sa
                       /\ Did(IF cfg.use_direct_mapping THEN "direct_mapping"
                              ELSE "allocate_resources", "connected", "", FALSE, None, 0, "")
                  ELSE /\ pc' = "search"
                       /\ \E m0 \in random_initial_mapping(S2) :
                              sa' = search_begin(S2, sa.attempt, m0)
                       /\ Did("allocate_resources", "connected", "", FALSE, None, 0, "")
    /\ last_mapping_cost' = IF sa.attempt > 0 \/ cfg.seed THEN Inf ELSE last_mapping_cost
    /\ UNCHANGED <<cvars, asmvars, values, cfg, attempt_costs>>

\* The mappings a random restart of the loop can draw in this iteration.
restart_draws(S, A) ==
    IF A.stagnation > StagnationLimit THEN random_initial_mapping(S) ELSE {NoMapping}

\* One iteration of the annealing loop: a pool key, one of the three kinds of
\* move, and the outcome of the acceptance test.
SearchIteration ==
    /\ pc = "search"
    /\ ~sa.brk
    /\ sa.iteration < cfg.heuristic_iterations
    /\ type_keys(Cur) # {}
    /\ \E res_type \in type_keys(Cur) :
       \E mv \in reassign_moves(Cur, sa.current_mapping, res_type)
                 \cup repair_moves(Cur, sa.current_mapping, res_type)
                 \cup swap_moves(Cur, sa.current_mapping, res_type) :
       \E accept \in acceptance_outcomes(Cur, sa, mv) :
       \E m \in restart_draws(Cur, sa) :
           sa' = iteration_step(Cur, sa, mv, accept, m)
    /\ Did("iteration", "", "", FALSE, None, 0, "")
    /\ UNCHANGED <<cvars, asmvars, symvars, graphvars, mapvars, values, pc, cfg, last_mapping_cost,
                   attempt_costs>>

\* The branch of the restart loop of init_modules after an attempt: break on
\* zero penalty (on to the fill-in), continue while retries remain (back to
\* the resets), accept the mapping on the last attempt.
after_search(mapping_cost, attempt, heuristic_restarts) ==
    IF mapping_cost = 0 THEN "fill"
    ELSE IF attempt < heuristic_restarts - 1 THEN "alloc"
    ELSE "fill"

\* The end of search (loop left by break, by exhaustion, or because there is
\* nothing to search), the return of heuristic_search_mapping, and the
\* decision of the restart loop to accept the mapping or to retry.
SearchFinish ==
    /\ pc = "search"
    /\ sa.brk \/ sa.iteration >= cfg.heuristic_iterations \/ type_keys(Cur) = {}
    /\ Becomes(search_return(Cur, sa))
    /\ last_mapping_cost' = sa.best_cost
    /\ LET mapping_cost == heuristic_search_mapping(sa)
           step == after_search(mapping_cost, sa.attempt, cfg.heuristic_restarts)
       IN  /\ pc' = step
           /\ sa' = IF step = "alloc" THEN [NoSearch EXCEPT !.attempt = sa.attempt + 1]
                    ELSE sa
           /\ Did("search", "", "", FALSE, mapping_cost, 0, "")
    /\ attempt_costs' = Append(attempt_costs, heuristic_search_mapping(sa))
    /\ UNCHANGED <<cvars, asmvars, values, cfg>>

\* allocate_resources(only_connected_nodes=False) and NodeIndex.resolve_all.
FillInAndResolve ==
    /\ pc = "fill"
    /\ LET S1 == allocate_resources(Cur, FALSE, <<>>)
       IN  IF S1.err # ""
           THEN /\ Becomes(S1)
                /\ pc' = "error"
                /\ Did("allocate_resources", "all", "", FALSE, None, 0, S1.err)
           ELSE /\ Becomes(resolve_all(S1))
                /\ pc' = "done"
                /\ Did("resolve_all", "", "", FALSE, None, 0, "")
    /\ UNCHANGED <<cvars, asmvars, values, cfg, sa, last_mapping_cost, attempt_costs>>

NextP ==
    \/ InitModules
    \/ LoadModules
    \/ BeginAttempt
    \/ SearchIteration
    \/ SearchFinish
    \/ FillInAndResolve

SpecPipeline == InitP /\ [][NextP]_vars

\* The class and index a slot presents to a constraint: streams under the
\* unified STREAM index, every other slot under its pool name.
slot_of(resource) ==
    IF resource[1] \in {"READ_STREAM", "WRITE_STREAM"} THEN parse_resource(resource)
    ELSE resource

\* C1: after the placement pipeline of init_modules (allocation of connected
\* nodes, search, fill-in of the remaining nodes) no two distinct nodes that
\* hold a class slot map to the same physical slot.
C1_PlacementUnique ==
    pc = "done" =>
        \A a, b \in Names :
            (a # b /\ node_to_resource[a] \notin {NoRes, GENERIC})
                => node_to_resource[a] # node_to_resource[b]

\* C2: when search finishes with total penalty 0, every recorded edge whose
\* endpoints are both placed satisfies check() of every constraint on the
\* class and index of the two slots, edges to a ROW_LC or COL_LC node
\* included.
C2_ZeroPenaltyIsAdmissible ==
    (pc = "fill" /\ last_mapping_cost = 0) =>
        \A i \in 1..Len(connections) :
            LET u == node_to_resource[connections[i][1]]
                v == node_to_resource[connections[i][2]]
            IN  (u # NoRes /\ v # NoRes) =>
                    \A k \in 1..Len(constraints) :
                        check(constraints[k], slot_of(u)[1], slot_of(u)[2],
                              slot_of(v)[1], slot_of(v)[2])

(***************************************************************************)
(* generate_bitstream on entry lists (specification SpecA)                 *)
(***************************************************************************)
\* The variables the assembler and the module operations leave alone.
othervars == <<cvars, symvars, graphvars, mapvars, values, pvars>>

\* Two configurations of one catalog under one mask: the entry lists hold
\* the same kinds in the same order and differ in their config strings.
InitA ==
    /\ cst_in = [cst |-> "LCtoLCConstraint", src |-> <<"LC", 0>>, dst |-> <<"LC", 0>>]
    /\ cst_out = NoEval
    /\ InitSym /\ InitGraph /\ InitMapper /\ InitValues
    /\ InitIdle
    /\ InitNoModule /\ InitNoBit
    /\ config_mask \in Masks
    /\ \E c \in Catalogs :
          entries \in {<<a, b>> :
              a \in {e \in [1..Len(c) -> UNION {{c[i]} \X Configs(c[i]) : i \in 1..Len(c)}] :
                        \A i \in 1..Len(c) : e[i][1] = c[i]},
              b \in {e \in [1..Len(c) -> UNION {{c[i]} \X OtherConfigs(c[i]) : i \in 1..Len(c)}] :
                        \A i \in 1..Len(c) : e[i][1] = c[i]}}
    /\ bitstream = <<NoStream, NoStream>>
    /\ binary_output = <<NoFile, NoFile>>
    /\ last = NoOp

\* generate_bitstream(entries, config_mask) for configuration k.
GenerateBitstream(k) ==
    /\ ~bitstream[k].done
    /\ bitstream' = [bitstream EXCEPT ![k] = generate_bitstream(entries[k], config_mask)]
    /\ Did("generate_bitstream", "", "", FALSE, k, 0, "")
    /\ UNCHANGED <<othervars, config_mask, entries, binary_output, module>>

NextA == \E k \in 1..2 : GenerateBitstream(k)

SpecA == InitA /\ [][NextA]_vars

\* The entries of configuration k whose group is enabled by the mask.
enabled_entries(k) ==
    {i \in 1..Len(entries[k]) :
        config_mask[MODULE_ID_TO_MASK(entries[k][i][1]) + 1] # 0}

\* C11: every entry of an enabled group that holds what build_entries
\* produces for its kind ('' or the bits of the kind's schema) contributes
\* exactly C framed sub-records, C being the kind's chunk count: C zero bits
\* when the entry is empty, else exactly C chunks of one length, each led by
\* the enable bit 1.
C11_EveryEntryYieldsCSubRecords ==
    \A k \in 1..2 : bitstream[k].done =>
        \A i \in enabled_entries(k) :
            LET mid == entries[k][i][1]
                config == entries[k][i][2]
                C == MODULE_CFG_CHUNK_SIZES(mid)
                fr == bitstream[k].frames[i]
            IN  Len(config) \in {0, EntryBits(mid)} =>
                    IF all_zero(config) THEN Join(fr) = Zeros(C)
                    ELSE /\ Len(fr) = C
                         /\ \A j \in 1..Len(fr) :
                               fr[j][1] = 1 /\ Len(fr[j]) = Len(fr[1])

\* C12: for a non-empty entry of an enabled group, the chunks emitted for
\* it, each without its leading enable bit, concatenated in emission order,
\* are the entry's bit string.
C12_ChunksReconstructEntry ==
    \A k \in 1..2 : bitstream[k].done =>
        \A i \in enabled_entries(k) :
            LET config == entries[k][i][2]
                fr == bitstream[k].frames[i]
            IN  ~all_zero(config) =>
                    /\ \A j \in 1..Len(fr) : fr[j][1] = 1
                    /\ Join([j \in 1..Len(fr) |-> Tail(fr[j])]) = config

\* A stream was generated for an enabled entry whose length is no multiple
\* of its kind's chunk count, so that a shorter last chunk was emitted.
C12_Witness ==
    \E k \in 1..2 : bitstream[k].done /\
        \E i \in enabled_entries(k) :
            /\ ~all_zero(entries[k][i][2])
            /\ Len(entries[k][i][2]) % MODULE_CFG_CHUNK_SIZES(entries[k][i][1]) # 0
            /\ Len(bitstream[k].frames[i]) > MODULE_CFG_CHUNK_SIZES(entries[k][i][1])

\* C13: the stream starts with the mask bits in order, its length is a
\* multiple of 64, it ends with fewer than 64 padding bits that are all
\* zero, and between mask and padding it holds the frames of the entries of
\* enabled groups and nothing for the others.
C13_MaskFramesPadding ==
    \A k \in 1..2 : bitstream[k].done =>
        LET bits == bitstream[k].bits
            body == config_mask \o
                    Join([i \in 1..Len(entries[k]) |->
                             IF i \in enabled_entries(k)
                             THEN Join(bitstream[k].frames[i]) ELSE <<>>])
            pad == Len(bits) - Len(body)
        IN  /\ Len(bits) % 64 = 0
            /\ pad \in 0..63
            /\ bits = body \o Zeros(pad)
            /\ \A i \in 1..Len(entries[k]) :
                  i \notin enabled_entries(k) => bitstream[k].frames[i] = <<>>

\* A stream was generated for a catalog of two groups, one enabled and
\* populated, the other disabled, and it ends with padding.
C13_Witness ==
    \E k \in 1..2 :
        /\ bitstream[k].done
        /\ Len(entries[k]) = 2
        /\ enabled_entries(k) # {} /\ enabled_entries(k) # {1, 2}
        /\ \E i \in enabled_entries(k) : ~all_zero(entries[k][i][2])
        /\ \E i \in 1..2 : i \notin enabled_entries(k) /\ ~all_zero(entries[k][i][2])
        /\ bitstream[k].bits[Len(bitstream[k].bits)] = 0
        /\ Len(bitstream[k].bits) = 128

\* C14: for one catalog and one mask, the streams of two configurations
\* that differ in which modules are absent, empty or populated have the same
\* length.
C14_LengthIndependentOfConfiguration ==
    (bitstream[1].done /\ bitstream[2].done)
        => Len(bitstream[1].bits) = Len(bitstream[2].bits)

(***************************************************************************)
(* A buffer module from construction to its entry (specification SpecM)    *)
(***************************************************************************)
\* The values a configuration holds for the fields of a buffer.
FieldInputs(name) ==
    CASE name = "dst_port" -> {Missing, BNone, BInt(0), BInt(1)}
      [] name = "buffer_life_time" -> {Missing, BNone, BInt(1), BInt(2)}
      [] name = "mode" -> {Missing, BInt(0), BInt(1)}
      [] name = "mask" -> {Missing, BNone, BInt(0), BInt(129),
                           BList(Zeros(8)), BList(<<1, 0, 0, 0, 0, 0, 0, 1>>)}

\* The configurations: the buffer's key absent, or a dict with "enable" and
\* any of the fields.
BufferConfigurations ==
    {[absent |-> TRUE, enable |-> 1, fields |-> [f \in Range(BufferFields) |-> Missing]]}
        \cup {[absent |-> FALSE, enable |-> e, fields |-> fs] :
                 e \in {0, 1},
                 fs \in {g \in [Range(BufferFields) -> UNION {FieldInputs(f) : f \in Range(BufferFields)}] :
                            \A f \in Range(BufferFields) : g[f] \in FieldInputs(f)}}

InitM ==
    /\ cst_in = [cst |-> "LCtoLCConstraint", src |-> <<"LC", 0>>, dst |-> <<"LC", 0>>]
    /\ cst_out = NoEval
    /\ InitSym /\ InitGraph /\ InitMapper /\ InitValues
    /\ InitIdle
    /\ InitNoStream
    /\ InitNoModule /\ InitNoBit
    /\ last = NoOp

\* BufferConfig(0): a run starts with a new module and no stream; it ends with
\* the stream, so the steps below act only before one exists.
DoConstruct ==
    /\ module' = BufferConfig
    /\ config_mask' = <<0, 0, 0, 0>>
    /\ entries' = <<<<>>, <<>>>>
    /\ bitstream' = <<NoStream, NoStream>>
    /\ Did("BufferConfig", "", "", FALSE, None, 0, "")
    /\ UNCHANGED <<othervars, binary_output>>

\* module.from_json(cfg)
DoBufferFromJson(buffer_cfg) ==
    /\ ~bitstream[1].done
    /\ module' = buffer_from_json(module, buffer_cfg)
    /\ Did("BufferConfig.from_json", IF buffer_cfg.absent THEN "absent" ELSE "present",
           "", FALSE, None, 0, "")
    /\ UNCHANGED <<othervars, config_mask, entries, bitstream, binary_output>>

\* module.mark_empty()
DoMarkEmpty ==
    /\ ~bitstream[1].done
    /\ module' = mark_empty(module)
    /\ Did("mark_empty", "", "", FALSE, None, 0, "")
    /\ UNCHANGED <<othervars, config_mask, entries, bitstream, binary_output>>

\* entries = build_entries([module]); generate_bitstream(entries, [1, 1, 1, 1]):
\* an exception of to_bits ends the run before any stream exists.
DoAssemble ==
    /\ ~bitstream[1].done
    /\ LET err == buffer_to_bits(module).err
           es == build_entries(module)
       IN  IF err # ""
           THEN /\ Did("build_entries", "", "", FALSE, None, 0, err)
                /\ UNCHANGED <<config_mask, entries, bitstream>>
           ELSE /\ config_mask' = <<1, 1, 1, 1>>
                /\ entries' = <<es, <<>>>>
                /\ bitstream' = <<generate_bitstream(es, <<1, 1, 1, 1>>), NoStream>>
                /\ Did("generate_bitstream", "", "", FALSE, 1, 0, "")
    /\ UNCHANGED <<othervars, binary_output, module>>

NextM ==
    \/ DoConstruct
    \/ \E buffer_cfg \in BufferConfigurations : DoBufferFromJson(buffer_cfg)
    \/ DoMarkEmpty
    \/ DoAssemble

SpecM == InitM /\ [][NextM]_vars

\* A stored value that is absent or zero: None, 0, or a list of zeros.
absent_or_zero(v) ==
    \/ v.kind = "None"
    \/ (v.kind = "int" /\ v.n = 0)
    \/ (v.kind = "list" /\ \A i \in 1..Len(v.l) : v.l[i] = 0)

\* C15: after any sequence of construct, from_json and mark_empty, a leaf
\* module whose stored values are all absent or zero reports is_empty() true,
\* and one with a nonzero stored value reports is_empty() false.
C15_EmptinessLaw ==
    is_empty(module) <=> \A f \in DOMAIN module.values : absent_or_zero(module.values[f])

\* C16: the assembler emits the disabled placeholder (C zero bits) for a
\* module exactly when its is_empty() is true, and enable-prefixed chunks
\* exactly when it is false; a module built from absent configuration
\* contributes only the placeholder.
C16_PlaceholderIffEmpty ==
    (last.op = "generate_bitstream" /\ Len(entries[1]) >= buffer_entry) =>
        LET fr == bitstream[1].frames[buffer_entry]
            C == MODULE_CFG_CHUNK_SIZES(BUFFER_MANAGER_CLUSTER)
        IN  /\ is_empty(module) <=> Join(fr) = Zeros(C)
            /\ ~is_empty(module) <=> (Len(fr) = C /\ \A j \in 1..Len(fr) : fr[j][1] = 1)

(***************************************************************************)
(* search() on a graph built through the API, run long enough to reach a   *)
(* stagnation restart (specification SpecS)                                *)
(***************************************************************************)
\* The first iteration whose restart test "stagnation > 2000 and
\* iteration % 500 == 0" can succeed.
RestartOnset == ((StagnationLimit \div RestartPeriod) + 1) * RestartPeriod

\* Bound: the iterations search runs from RestartOnset on.
MaxTail == 2

\* The graph before the search: a = NodeIndex('DRAM_LC.LC0');
\* Connect('DRAM_LC.LC1', a); assign_node('DRAM_LC.LC1', 'LC<slot>').
search_input(slot) ==
    assign_node(Connect(NodeIndex(Fresh, "DRAM_LC.LC0", ""), "DRAM_LC.LC1", "DRAM_LC.LC0"),
                "DRAM_LC.LC1", <<"LC", slot>>)

\* The local variables after k iterations that each reached the cooling step
\* without accepting a move and without a restart: "stagnation += 1", and the
\* loop variable advanced.
stagnate(A, k) == [A EXCEPT !.iteration = @ + k, !.stagnation = @ + k]

InitS ==
    /\ cst_in = [cst |-> "LCtoLCConstraint", src |-> <<"LC", 0>>, dst |-> <<"LC", 0>>]
    /\ cst_out = NoEval
    /\ \E slot \in 0..(NumLC - 1) :
          LET S == search_input(slot)
          IN  /\ registry = S.registry /\ queue = S.queue /\ counter = S.counter
              /\ resolved = S.resolved /\ index = S.index /\ physical_id = S.physical_id
              /\ g_nodes = S.g_nodes /\ connections = S.connections
              /\ node_metadata = S.node_metadata /\ m_nodes = S.m_nodes
              /\ node_to_resource = S.node_to_resource
              /\ assigned_node = S.assigned_node
              /\ resource_counters = S.resource_counters
              /\ use_direct_mapping = S.use_direct_mapping
    /\ InitValues
    /\ InitNoStream /\ InitNoModule /\ InitNoBit
    /\ pc = "alloc"
    /\ cfg = [NoCfg EXCEPT !.heuristic_iterations = RestartOnset + MaxTail]
    /\ sa = NoSearch
    /\ last_mapping_cost = Inf
    /\ attempt_costs = <<>>
    /\ last = NoOp

\* The iterations 0 .. RestartOnset-1 of the loop when each of them proposes
\* the same move, the move raises the cost, and the acceptance test rejects
\* it.  A rejected iteration changes nothing but the two counters, and the
\* restart test fails in all of them: stagnation equals the iteration number,
\* and RestartOnset is the first multiple of 500 above 2000.
SearchStagnate ==
    /\ pc = "search"
    /\ ~sa.brk
    /\ sa.iteration = 0
    /\ RestartOnset <= cfg.heuristic_iterations
    /\ \E res_type \in type_keys(Cur) :
       \E mv \in reassign_moves(Cur, sa.current_mapping, res_type)
                 \cup repair_moves(Cur, sa.current_mapping, res_type)
                 \cup swap_moves(Cur, sa.current_mapping, res_type) :
           /\ FALSE \in acceptance_outcomes(Cur, sa, mv)
           /\ iteration_step(Cur, sa, mv, FALSE, NoMapping) = stagnate(sa, 1)
           /\ sa' = stagnate(sa, RestartOnset)
    /\ Did("iteration", "rejected", "", FALSE, None, 0, "")
    /\ UNCHANGED <<cvars, asmvars, symvars, graphvars, mapvars, values, pc, cfg, last_mapping_cost,
                   attempt_costs>>

\* The iterations from RestartOnset on, one at a time.
SearchTail == sa.iteration >= RestartOnset /\ SearchIteration

NextS ==
    \/ BeginAttempt
    \/ SearchStagnate
    \/ SearchTail
    \/ SearchFinish
    \/ FillInAndResolve

SpecS == InitS /\ [][NextS]_vars

\* C18: search returns the lowest-penalty placement among all it held as
\* current.  The loop can end after any iteration, so at every iteration
\* boundary the tracked best cost is at most the cost of the placement held
\* as current, it equals the penalty of the tracked best mapping, and from one
\* boundary to the next it never increases.
C18_BestIsLowestHeld ==
    [][(pc' = "search" /\ sa'.attempt = sa.attempt) =>
          /\ sa'.best_cost <= sa'.current_cost
          /\ sa'.best_cost = calculate_cost(Cur, sa'.best_mapping)
          /\ pc = "search" => sa'.best_cost <= sa.best_cost]_vars


own_pool(n) ==
    IF get_type(n) = "STREAM"
    THEN (IF node_metadata[n] = "write" THEN "WRITE_STREAM" ELSE "READ_STREAM")
    ELSE get_type(n)

\* C20: when the placement phase has finished, every node registered in the
\* graph has an entry in the placement: a slot of the pool of its own class
\* when the class is known, the GENERIC placeholder otherwise; this includes
\* the nodes that touch no edge.
C20_EveryNodePlacedInOwnPool ==
    pc = "done" =>
        \A n \in Range(g_nodes) :
            IF get_type(n) = "" THEN node_to_resource[n] = GENERIC
            ELSE /\ node_to_resource[n] \in Range(resource_pools(own_pool(n)))

(***************************************************************************)
(* Two streams that compete for the one WRITE_STREAM slot (specification   *)
(* SpecX)                                                                  *)
(***************************************************************************)
\* The names the callers of this specification use.
PoolNames == {"STREAM.stream0", "STREAM.stream1"}

\* Bound: the calls of allocate that may fail on one pool (each failed call
\* advances the counter of the pool).
MaxFailedCalls == 2

NextX ==
    \/ \E name \in PoolNames : \E metadata \in MetaChoices(name) : DoNodeIndex(name, metadata)
    \/ \E node \in PoolNames : \E resource \in AssignChoices(node) : DoAssignNode(node, resource)
    \/ /\ \A t \in PoolTypes : resource_counters[t] < PoolSize(t) + MaxFailedCalls
       /\ \E order \in Orders(nodes_in_connections(Cur)) : DoAllocateResources(FALSE, order)

SpecX == Init /\ [][NextX]_vars

\* The nodes that need a slot of pool t: the nodes that hold a slot of t, and
\* the registered nodes without a slot whose class draws from t.
needing(t) ==
    {n \in Names : \/ node_to_resource[n] # NoRes /\ node_to_resource[n][1] = t
                   \/ /\ InSeq(n, g_nodes) /\ node_to_resource[n] = NoRes
                      /\ own_pool(n) = t}

\* C21: when allocate_resources has run while more nodes need a slot of one
\* pool than the pool contains, it has failed with the fatal error; it has not
\* handed out a slot outside the pool or a slot that another node holds.
C21_OverflowIsFatal ==
    (last.op = "allocate_resources" /\ last.a = "all") =>
        \A t \in PoolTypes :
            Cardinality(needing(t)) > PoolSize(t) => last.err = "RuntimeError"

(***************************************************************************)
(* init_modules called on a state an earlier run has left (specification   *)
(* SpecR)                                                                  *)
(***************************************************************************)
\* The first run starts in a new process; its configuration has one attempt
\* and no entry for DRAM_LC.LC2.  A later run is a call of init_modules, which
\* makes the resets and ends at its module list, followed by the statements
\* of the body made by the caller on the state the call has left.
InitR ==
    /\ InitP
    /\ cfg.heuristic_restarts = 1
    /\ ~cfg.dram["DRAM_LC.LC2"].present

SpecR == InitR /\ [][NextP]_vars

MaxWidth == 4
MaxShift == 5

\* a & b and a | b on non-negative Python ints.
RECURSIVE BitAnd(_, _)
BitAnd(a, b) ==
    IF a = 0 \/ b = 0 THEN 0
    ELSE (a % 2) * (b % 2) + 2 * BitAnd(a \div 2, b \div 2)

RECURSIVE BitOr(_, _)
BitOr(a, b) ==
    IF a = 0 THEN b
    ELSE IF b = 0 THEN a
    ELSE Max(a % 2, b % 2) + 2 * BitOr(a \div 2, b \div 2)

\* Bit(value, width): __post_init__ rejects a width below 1 and keeps
\* value & (2**width - 1).
Bit(value, width) ==
    IF width < 1 THEN [value |-> 0, width |-> 0, err |-> "ValueError"]
    ELSE [value |-> BitAnd(value, Pow2(width) - 1), width |-> width, err |-> ""]

\* B[start:stop] for 0 <= start, 0 <= stop (bit 0 is the least significant).
getitem(B, start, stop) ==
    IF ~(0 <= start /\ start <= stop /\ stop <= B.width)
    THEN [value |-> 0, width |-> 0, err |-> "IndexError"]
    ELSE LET new_width == stop - start
             new_val == IF new_width > 0
                        THEN BitAnd(B.value \div Pow2(start), Pow2(new_width) - 1)
                        ELSE 0
         IN  Bit(new_val, new_width)

\* A.concat(B): A becomes the upper bits, B the lower bits.
concat(A, B) ==
    LET new_w == A.width + B.width
        new_val == BitOr(A.value * Pow2(B.width), B.value)
    IN  Bit(new_val, new_w)

\* B[0:k].concat(B[k:W]); an exception of a slice ends the expression.
slice_concat(B, k) ==
    LET lo == getitem(B, 0, k)
        hi == getitem(B, k, B.width)
    IN  IF lo.err # "" THEN lo
        ELSE IF hi.err # "" THEN hi
        ELSE concat(lo, hi)

\* B.to_signed()
to_signed(B) ==
    IF BitAnd(B.value, Pow2(B.width - 1)) # 0 THEN B.value - Pow2(B.width) ELSE B.value

\* B.arithmetic_rshift(bits) for bits >= 0.
arithmetic_rshift(B, bits) ==
    IF bits >= B.width
    THEN LET sign == IF BitAnd(B.value \div Pow2(B.width - 1), 1) # 0 THEN 1 ELSE 0
         IN  Bit(IF sign = 1 THEN Pow2(B.width) - 1 ELSE 0, B.width)
    ELSE LET sign == BitAnd(B.value \div Pow2(B.width - 1), 1)
             shifted == B.value \div Pow2(bits)
             mask == (Pow2(B.width - bits) - 1) * Pow2(bits)
         IN  Bit(BitAnd(IF sign # 0 THEN BitOr(shifted, mask) ELSE shifted,
                        Pow2(B.width) - 1),
                 B.width)

\* Any Bit of width 1..MaxWidth, before an operation is applied to it.
InitB ==
    /\ cst_in = [cst |-> "LCtoLCConstraint", src |-> <<"LC", 0>>, dst |-> <<"LC", 0>>]
    /\ cst_out = NoEval
    /\ \E w \in 1..MaxWidth : \E v \in 0..(Pow2(w) - 1) :
          bit = [NoBit EXCEPT !.b = [value |-> v, width |-> w]]
    /\ InitSym /\ InitGraph /\ InitMapper /\ InitValues
    /\ InitNoStream /\ InitNoModule
    /\ InitIdle
    /\ last = NoOp

\* B[0:k].concat(B[k:W]) on the Bit under test.
DoSliceConcat(k) ==
    /\ bit' = [bit EXCEPT !.op = "slice_concat", !.n = k, !.r = slice_concat(bit.b, k)]
    /\ UNCHANGED <<cst_in, cst_out, asmvars, symvars, graphvars, mapvars, values, pvars, last>>

\* B.arithmetic_rshift(n) on the Bit under test.
DoArithmeticRshift(n) ==
    /\ bit' = [bit EXCEPT !.op = "arithmetic_rshift", !.n = n,
                          !.r = arithmetic_rshift(bit.b, n)]
    /\ UNCHANGED <<cst_in, cst_out, asmvars, symvars, graphvars, mapvars, values, pvars, last>>

NextB ==
    \/ \E k \in 0..bit.b.width : DoSliceConcat(k)
    \/ \E n \in 0..MaxShift : DoArithmeticRshift(n)

SpecB == InitB /\ [][NextB]_vars

\* C23: for every Bit B of width W and every split point k with 0 <= k <= W,
\* B[0:k].concat(B[k:W]) is a Bit with the value and the width of B.
C23_SliceConcatInverse ==
    bit.op = "slice_concat" =>
        /\ bit.r.err = ""
        /\ bit.r.value = bit.b.value
        /\ bit.r.width = bit.b.width

\* C24: for every Bit of value v and width W and every shift n >= 0,
\* arithmetic_rshift(n) has width W and the value
\* floor(to_signed(v) / 2^n) mod 2^W.
C24_ArithmeticShiftSignExtends ==
    bit.op = "arithmetic_rshift" =>
        /\ bit.r.err = ""
        /\ bit.r.width = bit.b.width
        /\ bit.r.value = (to_signed(bit.b) \div Pow2(bit.n)) % Pow2(bit.b.width)

(***************************************************************************)
(* int(Connect) for an LC -> LC connection on every pair of LC slots       *)
(* (specification SpecL)                                                   *)
(***************************************************************************)
\* The graph before the conversion: dst = NodeIndex('DRAM_LC.LC0');
\* Connect('DRAM_LC.LC1', dst); assign_node('DRAM_LC.LC0', 'LC<i>');
\* assign_node('DRAM_LC.LC1', 'LC<j>').
lc_pair_input(i, j) ==
    assign_node(assign_node(Connect(NodeIndex(Fresh, "DRAM_LC.LC0", ""),
                                    "DRAM_LC.LC1", "DRAM_LC.LC0"),
                            "DRAM_LC.LC0", <<"LC", i>>),
                "DRAM_LC.LC1", <<"LC", j>>)

InitL ==
    /\ cst_in = [cst |-> "LCtoLCConstraint", src |-> <<"LC", 0>>, dst |-> <<"LC", 0>>]
    /\ cst_out = NoEval
    /\ \E i \in 0..(NumLC - 1) : \E j \in 0..(NumLC - 1) :
          LET S == lc_pair_input(i, j)
          IN  /\ registry = S.registry /\ queue = S.queue /\ counter = S.counter
              /\ resolved = S.resolved /\ index = S.index /\ physical_id = S.physical_id
              /\ g_nodes = S.g_nodes /\ connections = S.connections
              /\ node_metadata = S.node_metadata /\ m_nodes = S.m_nodes
              /\ node_to_resource = S.node_to_resource
              /\ assigned_node = S.assigned_node
              /\ resource_counters = S.resource_counters
              /\ use_direct_mapping = S.use_direct_mapping
    /\ InitValues
    /\ InitNoStream /\ InitNoModule /\ InitNoBit
    /\ InitIdle
    /\ last = NoOp

NextL ==
    \/ DoResolveAll
    \/ DoIntConnect("DRAM_LC.LC1", "DRAM_LC.LC0")

SpecL == InitL /\ [][NextL]_vars

\* C25: when int(Connect) has been taken for an LC -> LC connection whose
\* source holds physical index i-2, i-1, i+1 or i+2 in the row of the
\* destination, which holds physical index i, the result is 0, 1, 2 or 3
\* respectively.
C25_SameRowNeighbourIndex ==
    (/\ last.op = "int(Connect)" /\ last.a \in LCNames /\ last.b \in LCNames
     /\ node_to_resource[last.a][2] \div 8 = node_to_resource[last.b][2] \div 8
     /\ physical_id[last.a] - physical_id[last.b] \in {-2, -1, 1, 2}) =>
        LET d == physical_id[last.a] - physical_id[last.b]
        IN  /\ last.err = ""
            /\ last.val = CASE d = -2 -> 0 [] d = -1 -> 1 [] d = 1 -> 2 [] d = 2 -> 3

(***************************************************************************)
(* init_modules on configurations of one buffer group and one stream       *)
(* (specification SpecG)                                                   *)
(***************************************************************************)
\* A "buffer_loop_configs" entry as in GroupEntries, and also with a COL_LC
\* section that has no src_id.
GroupEntriesG ==
    GroupEntries
    \cup [present : {TRUE}, target : GroupTargets, sections : {TRUE},
          row_src : {NoKey, StrVal("DRAM_LC.LC0")},
          col_src : {NoKey}]

InitG ==
    /\ cst_in = [cst |-> "LCtoLCConstraint", src |-> <<"LC", 0>>, dst |-> <<"LC", 0>>]
    /\ cst_out = NoEval
    /\ InitSym /\ InitGraph /\ InitMapper /\ InitValues
    /\ InitNoStream /\ InitNoModule /\ InitNoBit
    /\ pc = "load"
    /\ \E g \in GroupEntriesG, st \in StreamEntries, sd \in BOOLEAN, hr \in 1..MaxRestarts :
          cfg = [NoCfg EXCEPT !.group = g, !.stream = st, !.seed = sd,
                              !.heuristic_restarts = hr,
                              !.heuristic_iterations = MaxIterations]
    /\ sa = NoSearch
    /\ last_mapping_cost = Inf
    /\ attempt_costs = <<>>
    /\ last = NoOp

SpecG == InitG /\ [][NextP]_vars

\* C26: in the placement search returned and in the final placement after the
\* fill-in, whenever the ROW_LC node and the COL_LC node of one group are both
\* placed, their slots are ROW_LCj and COL_LCj with the same j.
C26_SiblingsShareIndex ==
    (pc \in {"fill", "done"}) =>
        \A r \in ROWNames :
            LET c == col_lc_node(r)
            IN  (node_to_resource[r] # NoRes /\ node_to_resource[c] # NoRes) =>
                    /\ node_to_resource[r][1] = "ROW_LC"
                    /\ node_to_resource[c][1] = "COL_LC"
                    /\ node_to_resource[r][2] = node_to_resource[c][2]

\* C27: a node pre-assigned with assign_node holds, when search has returned
\* and when the fill-in allocation has run, the slot it was assigned (the one
\* it held before the search), whether or not it is an endpoint of an edge.
C27_PreassignedKeepSlot ==
    (pc \in {"fill", "done"}) =>
        \A n \in Names :
            assigned_node[n] # NoRes => node_to_resource[n] = assigned_node[n]

\* C28: when _encode_field has converted the Connect stored in a src_id field
\* to its relative index, the index is smaller than 2^width of the field, so
\* Bit(index, width) holds it without truncation.
C28_RelativeIndexFitsField ==
    (last.op = "encode_field" /\ last.b = "Connect" /\ last.err = "") =>
        last.val < Pow2(last.w)

(***************************************************************************)
(* write_bitstream beside generate_bitstream (specification SpecW)         *)
(***************************************************************************)
\* module_groups[mid]: the configs of the entries of kind mid, in entry order.
module_groups(es, mid) ==
    LET of_kind == SelectSeq(es, LAMBDA e : e[1] = mid)
    IN  [i \in 1..Len(of_kind) |-> of_kind[i][2]]

\* get_config_output_lines(config, module_id): the line "0" for an empty or
\* all-zero config, else one line "1 <chunk>" per chunk. A line is kept as
\* the bits the binary dump makes of it: '0' for "0", '1' + chunk for
\* "1 <chunk>".
get_config_output_lines(config, module_id) ==
    IF all_zero(config) THEN <<<<0>>>>
    ELSE LET chunks == split_config(config, module_id)
         IN  [k \in 1..Len(chunks) |-> <<1>> \o chunks[k]]

\* max_lines of a kind: the largest number of lines of one of its configs.
RECURSIVE max_lines(_, _)
max_lines(configs, mid) ==
    IF configs = <<>> THEN 0
    ELSE Max(Len(get_config_output_lines(Head(configs), mid)),
             max_lines(Tail(configs), mid))

\* What the loop over the configs of one kind appends to binary_data: the
\* lines of each config, then "0" lines up to max_lines.
group_lines(configs, mid) ==
    Join([i \in 1..Len(configs) |->
             LET lines == get_config_output_lines(configs[i], mid)
             IN  Join(lines) \o Zeros(max_lines(configs, mid) - Len(lines))])

\* The kinds write_bitstream processes: those with an entry whose group the
\* mask enables.
written_kinds(es, mask) ==
    {mid \in ModuleIDs :
        /\ module_groups(es, mid) # <<>>
        /\ mask[MODULE_ID_TO_MASK(mid) + 1] # 0}

\* write_bitstream(entries, config_mask, output_file, binary_output_file):
\* the lines of binary_output_file joined. The progress message of a kind
\* takes max(len(c) for c in configs if c), which raises ValueError when
\* every config of the kind is ''; no binary file is written then.
write_bitstream(es, mask) ==
    IF \E mid \in written_kinds(es, mask) :
           \A i \in 1..Len(module_groups(es, mid)) : module_groups(es, mid)[i] = <<>>
    THEN [done |-> TRUE, err |-> "ValueError", bits |-> <<>>]
    ELSE LET body == mask \o
                 Join([m \in 1..12 |->
                          IF (m - 1) \in written_kinds(es, mask)
                          THEN group_lines(module_groups(es, m - 1), m - 1)
                          ELSE <<>>])
         IN  [done |-> TRUE, err |-> "", bits |-> body \o padding(Len(body))]

\* One entry list of one catalog under one mask, given to both functions.
InitW ==
    /\ cst_in = [cst |-> "LCtoLCConstraint", src |-> <<"LC", 0>>, dst |-> <<"LC", 0>>]
    /\ cst_out = NoEval
    /\ InitSym /\ InitGraph /\ InitMapper /\ InitValues
    /\ InitIdle
    /\ InitNoModule /\ InitNoBit
    /\ config_mask \in Masks
    /\ \E c \in Catalogs :
          entries \in {<<a, <<>>>> :
              a \in {e \in [1..Len(c) -> UNION {{c[i]} \X Configs(c[i]) : i \in 1..Len(c)}] :
                        \A i \in 1..Len(c) : e[i][1] = c[i]}}
    /\ bitstream = <<NoStream, NoStream>>
    /\ binary_output = <<NoFile, NoFile>>
    /\ last = NoOp

\* write_bitstream(entries, config_mask, output_file, binary_output_file) for
\* configuration k.
WriteBitstream(k) ==
    /\ ~binary_output[k].done
    /\ binary_output' = [binary_output EXCEPT ![k] = write_bitstream(entries[k], config_mask)]
    /\ Did("write_bitstream", "", "", FALSE, k, 0, binary_output'[k].err)
    /\ UNCHANGED <<othervars, config_mask, entries, bitstream, module>>

NextW ==
    \/ GenerateBitstream(1)
    \/ WriteBitstream(1)

SpecW == InitW /\ [][NextW]_vars

\* C29: for an entry list and a mask given to both functions, write_bitstream
\* completes without error and the lines of its binary output, joined, are
\* the stream generate_bitstream returns.
C29_BinaryDumpIsTheStream ==
    (bitstream[1].done /\ binary_output[1].done) =>
        /\ binary_output[1].err = ""
        /\ binary_output[1].bits = bitstream[1].bits

\* C30: in every state the interface calls can reach (node creation,
\* assign_node, allocate_resources, resolve_all, int of a node or of a
\* Connect, in any order), a node that has a physical id and a slot of a
\* resource class in the mapper has the numeric index of that slot as its
\* physical id.
C30_PhysicalIdFollowsSlot ==
    \A n \in registry :
        (physical_id[n] # None /\ node_to_resource[n] \notin {NoRes, GENERIC})
            => physical_id[n] = resource_id(node_to_resource[n])

====
